---- MODULE Spec2Model ----
(***************************************************************************)
(* Excalibur action system: ActionQueue and the Action classes of          *)
(* src/engine/Actions/Action.ts, driven by Actor.update.                   *)
(*                                                                         *)
(* Units.  Positions are held in milli-pixels, velocities in pixels per    *)
(* second and deltas in milliseconds, so that pos += vel * delta / 1000    *)
(* is the exact integer step pos += vel * delta.  Angles are held in       *)
(* thousandths of an eighth of a turn (TwoPI = 8000), angular velocities   *)
(* in eighths of a turn per second.                                        *)
(***************************************************************************)
EXTENDS Integers, Sequences, FiniteSets, TLC

\* ------------------------------------------------------------------ bounds
MaxTicks == 4        \* Actor.update calls in a run that adds plain actions
MaxCompositeTicks == 9  \* Actor.update calls in a run that adds a Repeat or RepeatForever
MaxCalls == 2        \* direct calls of remove/clearActions/reset/stop in one run
MaxQueue == 3        \* actions added to the actor's queue in one run
MaxTrackTicks == 5   \* update calls, of either actor, in a run that adds a Follow or Meet
Deltas == {1, 1000}  \* tick durations in ms
DirectDeltas == {1}  \* deltas in ms passed to an update called directly on an action
WorldLimit == 1000000  \* furthest an actor travels in one tick, in milli-pixels
OtherDeltas == {1000}  \* tick durations in ms of the actor that Follow and Meet track
MaxTimedTicks == 12  \* Actor.update calls in a run that blinks or fades in short ticks
TimedDeltas == {20, 200}  \* tick durations in ms of the runs that blink or fade
MaxLiveTicks == 20   \* Actor.update calls in a run that is updated until its queue is empty
RunTicks == 14       \* ticks left to a run when its last action is added or its queue reset
LiveDeltas == {500, 1000}  \* tick durations in ms of the runs updated until the queue is empty

\* --------------------------------------------------------------- constants
TwoPI == 8000
PI == 4000
Undefined == 0       \* JS undefined where an Action reference is expected
OtherMoveTo == 27    \* the MoveTo queued on the actor that Follow and Meet track
ActorQueue == 0      \* id of actor.actionQueue; a composite's queue has the composite's id
OtherQueue == -1     \* id of the action queue of the actor that Follow and Meet track
NoArg == -1          \* an optional constructor argument that was omitted

\* ----------------------------------------------------------------- algebra
Abs(n) == IF n < 0 THEN -n ELSE n

Sign(n) == IF n < 0 THEN -1 ELSE IF n > 0 THEN 1 ELSE 0

\* integer division truncating towards zero
Quot(a, b) == Sign(a) * Sign(b) * (Abs(a) \div Abs(b))

\* JS remainder operator: the result takes the sign of the dividend
JsRem(a, b) == Sign(a) * (Abs(a) % Abs(b))

vec(x, y) == [x |-> x, y |-> y]

VectorZero == vec(0, 0)

RECURSIVE SqrtIter(_, _)
SqrtIter(n, r) == IF r * r <= n THEN r ELSE SqrtIter(n, (r + n \div r) \div 2)

\* integer square root; the iteration starts at or above the root
ISqrt(n) == IF n <= 0 THEN 0 ELSE SqrtIter(n, IF n > 46340 THEN 46340 ELSE n)

\* Vector.size; exact for the axis-aligned vectors the runs use
Size(v) ==
    IF v.y = 0 THEN Abs(v.x)
    ELSE IF v.x = 0 THEN Abs(v.y)
    ELSE ISqrt(v.x * v.x + v.y * v.y)

Sub(a, b) == vec(a.x - b.x, a.y - b.y)

Add(a, b) == vec(a.x + b.x, a.y + b.y)

Distance(a, b) == Size(Sub(a, b))

\* Vector.normalize: the zero vector normalizes to (0, 1)
Normalize(v) ==
    IF Size(v) > 0 THEN vec(Quot(v.x, Size(v)), Quot(v.y, Size(v))) ELSE vec(0, 1)

Scale(v, s) == vec(v.x * s, v.y * s)

\* Util.canonicalizeAngle: wrap into [0, TwoPI)
CanonicalizeAngle(a) == a % TwoPI

\* EasingFunctions.Linear
EasingLinear(t, startValue, endValue, duration) ==
    Quot((endValue - startValue) * t, duration) + startValue

\* an easing function supplied by the caller that passes the end value before
\* the duration has elapsed: (c t/d) (3 - 2 t/d) + b, at the end value when
\* t = d/2 and t = d and beyond it in between
EasingOvershoot(t, startValue, endValue, duration) ==
    Quot(Quot((endValue - startValue) * t, duration) * (3 * duration - 2 * t), duration)
        + startValue

\* this.easingFcn(currentTime, startValue, endValue, duration)
EasingFcn(fcn, t, startValue, endValue, duration) ==
    IF fcn = "Linear" THEN EasingLinear(t, startValue, endValue, duration)
    ELSE EasingOvershoot(t, startValue, endValue, duration)

px(n) == n * 1000

RangeOf(s) == {s[i] : i \in 1..Len(s)}

\* Array.prototype.indexOf: 0-based index of the first occurrence, -1 when absent
IndexOf(s, e) ==
    IF e \in RangeOf(s)
    THEN (CHOOSE i \in 1..Len(s) : s[i] = e /\ \A j \in 1..(i - 1) : s[j] # e) - 1
    ELSE -1

\* Array.prototype.splice(index, 1) on 0-based index; a negative index counts from the end
Splice1(s, index) ==
    LET n == Len(s)
        from == IF index < 0 THEN (IF n + index < 0 THEN 0 ELSE n + index)
                ELSE (IF index > n THEN n ELSE index)
    IN  IF from >= n THEN s
        ELSE SubSeq(s, 1, from) \o SubSeq(s, from + 2, n)

\* ------------------------------------------------------------ constructors
\* `defined` is FALSE while the lazily captured fields are still undefined:
\* every comparison against them is false until the first update assigns them.
NewMoveTo(destx, desty, speed) ==
    [kind |-> "MoveTo", end |-> vec(px(destx), px(desty)), speed |-> speed,
     start |-> VectorZero, dir |-> VectorZero, distance |-> 0,
     defined |-> FALSE, started |-> FALSE, stopped |-> FALSE]

NewMoveBy(offsetX, offsetY, speed) ==
    [kind |-> "MoveBy", offset |-> vec(px(offsetX), px(offsetY)), speed |-> speed,
     start |-> VectorZero, end |-> VectorZero, dir |-> VectorZero, distance |-> 0,
     defined |-> FALSE, started |-> FALSE, stopped |-> FALSE]

NewEaseTo(x, y, duration, easingFcn) ==
    [kind |-> "EaseTo", lerpEnd |-> vec(px(x), px(y)), lerpDuration |-> duration,
     easingFcn |-> easingFcn,
     lerpStart |-> VectorZero, currentLerpTime |-> 0, distance |-> 0,
     initialized |-> FALSE, stopped |-> FALSE]

NewRotateTo(angleRadians, speed, rotationType) ==
    [kind |-> "RotateTo", end |-> angleRadians, speed |-> speed, rotationType |-> rotationType,
     start |-> 0, direction |-> 0, distance |-> 0, shortDistance |-> 0, longDistance |-> 0,
     shortestPathIsPositive |-> FALSE, currentNonCannonAngle |-> 0,
     defined |-> FALSE, started |-> FALSE, stopped |-> FALSE]

NewRotateBy(angleRadiansOffset, speed, rotationType) ==
    [kind |-> "RotateBy", offset |-> angleRadiansOffset, speed |-> speed,
     rotationType |-> rotationType,
     start |-> 0, end |-> 0, direction |-> 0, distance |-> 0, shortDistance |-> 0,
     longDistance |-> 0, shortestPathIsPositive |-> FALSE, currentNonCannonAngle |-> 0,
     defined |-> FALSE, started |-> FALSE, stopped |-> FALSE]

NewDelay(delay) ==
    [kind |-> "Delay", delay |-> delay, elapsedTime |-> 0, started |-> FALSE, stopped |-> FALSE]

NewRepeat(repeat, actions) ==
    [kind |-> "Repeat", repeat |-> repeat, originalRepeat |-> repeat, inner |-> actions,
     stopped |-> FALSE]

NewRepeatForever(actions) ==
    [kind |-> "RepeatForever", inner |-> actions, stopped |-> FALSE]

\* Follow's constructor reads both actors' positions; followDistance is NoArg when omitted
NewFollow(actorPos, actorToFollowPos, followDistance) ==
    [kind |-> "Follow", followDistance |-> followDistance,
     current |-> actorPos, end |-> actorToFollowPos,
     maximumDistance |-> IF followDistance # NoArg THEN px(followDistance)
                         ELSE Distance(actorPos, actorToFollowPos),
     speed |-> 0, dir |-> VectorZero, distanceBetween |-> 0,
     started |-> FALSE, stopped |-> FALSE]

\* Meet's constructor reads both actors' positions; speed is NoArg when omitted
NewMeet(actorPos, actorToMeetPos, speed) ==
    [kind |-> "Meet", speedArg |-> speed,
     current |-> actorPos, end |-> actorToMeetPos,
     speed |-> IF speed # NoArg THEN speed ELSE 0,
     speedWasSpecified |-> speed # NoArg,
     dir |-> VectorZero, distanceBetween |-> 0,
     defined |-> FALSE, started |-> FALSE, stopped |-> FALSE]

NewScaleTo(scaleX, scaleY, speedX, speedY) ==
    [kind |-> "ScaleTo", endX |-> px(scaleX), endY |-> px(scaleY),
     speedX |-> speedX, speedY |-> speedY,
     startX |-> 0, startY |-> 0, distanceX |-> 0, distanceY |-> 0,
     defined |-> FALSE, started |-> FALSE, stopped |-> FALSE]

NewScaleBy(scaleOffsetX, scaleOffsetY, speed) ==
    [kind |-> "ScaleBy", offset |-> vec(px(scaleOffsetX), px(scaleOffsetY)),
     speedX |-> speed, speedY |-> speed,
     startScale |-> VectorZero, endScale |-> VectorZero,
     distanceX |-> 0, distanceY |-> 0, directionX |-> 0, directionY |-> 0,
     defined |-> FALSE, started |-> FALSE, stopped |-> FALSE]

NewBlink(timeVisible, timeNotVisible, numBlinks) ==
    [kind |-> "Blink", timeVisible |-> timeVisible, timeNotVisible |-> timeNotVisible,
     duration |-> (timeVisible + timeNotVisible) * numBlinks,
     elapsedTime |-> 0, totalTime |-> 0, started |-> FALSE, stopped |-> FALSE]

\* opacity is held in thousandths
NewFade(endOpacity, speed) ==
    [kind |-> "Fade", endOpacity |-> endOpacity, speed |-> speed, multiplier |-> 1,
     started |-> FALSE, stopped |-> FALSE]

NewDie == [kind |-> "Die", stopped |-> FALSE]

\* invoked counts the calls of the method the action was constructed with
NewCallMethod == [kind |-> "CallMethod", hasBeenCalled |-> FALSE, invoked |-> 0]

NewActionQueue == [actions |-> <<>>, completedActions |-> <<>>, currentAction |-> Undefined]

\* a fresh Actor at (x, y)
NewActor(x, y) ==
    [pos |-> vec(px(x), px(y)), vel |-> VectorZero, rotation |-> 0, rx |-> 0,
     scale |-> vec(px(1), px(1)), sx |-> 0, sy |-> 0,
     opacity |-> 1000, visible |-> TRUE, killed |-> FALSE]

\* ------------------------------------------------------- the action objects
\* The Action objects a run may construct.  Composite actions own the actions
\* listed as their inner list.
Pool ==
    1  :> NewMoveTo(20, 0, 10) @@
    2  :> NewDelay(1000) @@
    3  :> NewDelay(1) @@
    4  :> NewRotateTo(2000, 2, "ShortestPath") @@
    5  :> NewRotateBy(2000, 2, "ShortestPath") @@
    6  :> NewEaseTo(20, 0, 2000, "Linear") @@
    7  :> NewMoveBy(20, 0, 10) @@
    8  :> NewRepeat(1, <<9, 10>>) @@
    9  :> NewMoveTo(20, 0, 10) @@
    10 :> NewMoveTo(0, 0, 10) @@
    11 :> NewRepeatForever(<<12, 13>>) @@
    12 :> NewMoveTo(10, 0, 10) @@
    13 :> NewDelay(1) @@
    14 :> NewRepeatForever(<<15>>) @@
    15 :> NewRepeat(2, <<16>>) @@
    16 :> NewMoveTo(10, 0, 10) @@
    17 :> NewFollow(VectorZero, VectorZero, NoArg) @@
    18 :> NewMeet(VectorZero, VectorZero, NoArg) @@
    19 :> NewMeet(VectorZero, VectorZero, 10) @@
    20 :> NewFollow(VectorZero, VectorZero, 5) @@
    21 :> NewScaleTo(2, 3, 1, 1) @@
    22 :> NewScaleBy(1, 1, 1) @@
    23 :> NewCallMethod @@
    24 :> NewBlink(1, 1000, 1) @@
    25 :> NewFade(0, 1000) @@
    26 :> NewDie @@
    27 :> NewMoveTo(20, 0, 10) @@
    28 :> NewRepeatForever(<<29, 30>>) @@
    29 :> NewDelay(1) @@
    30 :> NewCallMethod @@
    31 :> NewMoveBy(20, 0, 0) @@
    32 :> NewMoveBy(20, 0, -10) @@
    33 :> NewRotateTo(2000, 2, "LongestPath") @@
    34 :> NewRotateTo(2000, 2, "Clockwise") @@
    35 :> NewRotateTo(2000, 2, "CounterClockwise") @@
    36 :> NewRotateTo(6000, 2, "Clockwise") @@
    37 :> NewRotateTo(0, 2, "CounterClockwise") @@
    38 :> NewRotateTo(0, 2, "Clockwise") @@
    39 :> NewRotateTo(2000, 2, "ShortestPath") @@
    40 :> NewRotateTo(4000, 2, "LongestPath") @@
    41 :> NewRotateBy(6000, 2, "Clockwise") @@
    42 :> NewRotateBy(6000, 2, "CounterClockwise") @@
    43 :> NewRotateBy(2000, 2, "LongestPath") @@
    44 :> NewRotateBy(2000, 2, "Clockwise") @@
    45 :> NewRotateTo(10000, 2, "ShortestPath") @@
    46 :> NewRotateTo(10000, 2, "CounterClockwise") @@
    47 :> NewRotateBy(10000, 2, "ShortestPath") @@
    48 :> NewScaleTo(3, 2, 1, 1) @@
    49 :> NewFade(1000, 200) @@
    50 :> NewBlink(200, 200, 1) @@
    51 :> NewBlink(200, 200, 2) @@
    52 :> NewEaseTo(20, 0, 2000, "Overshoot") @@
    53 :> NewMoveTo(0, 0, 10) @@
    54 :> NewMoveBy(0, 0, 10) @@
    55 :> NewRepeatForever(<<56, 57>>) @@
    56 :> NewFade(1000, 200) @@
    57 :> NewFade(0, 200)

Ids == DOMAIN Pool

Composites == {a \in Ids : Pool[a].kind \in {"Repeat", "RepeatForever"}}

\* Follow and Meet read the positions of both actors when they are constructed
Trackers == {a \in Ids : Pool[a].kind \in {"Follow", "Meet"}}

\* the sets of actions a caller constructs and may add to the actor's queue
Scenarios == {{1, 2, 3}, {4, 5}, {6, 7}, {1, 4}, {8}, {11}, {14}}

\* the runs that follow or meet the other actor
TrackScenarios == {{3, 17}, {20}, {18}, {19}}

\* the runs over the remaining action kinds, direct updates and failing constructors
KindScenarios ==
    {{1}, {5}, {6}, {21, 22}, {23, 26}, {24, 25}, {28}, {7, 31, 32},
     {33, 39}, {34, 35}, {36, 37}, {38, 40}, {41, 42}, {43, 44},
     {45, 46}, {47}, {48}, {52}, {53, 54}}

\* the runs that blink and fade in ticks of 20 ms and 200 ms
TimedScenarios == {{49}, {50}, {51}, {55}}

\* queues of actions that all come to an end
LiveScenarios == {{1, 2, 4}, {5, 7, 23}, {3, 50}, {8, 23}, {3, 15}}

\* the runs that set the target's opacity to 0 before they add their actions
FadeInScenarios == {{49}}

\* the runs that fade the target in and out again and again, from opacity 0
FadeReplayScenarios == {{55}}

\* a run that adds a composite needs more ticks to finish a pass of its inner list
TickLimit(scenario) ==
    IF scenario \in LiveScenarios THEN MaxLiveTicks
    ELSE IF scenario \in TimedScenarios THEN MaxTimedTicks
    ELSE IF scenario \subseteq Composites THEN MaxCompositeTicks
    ELSE IF scenario \cap Trackers # {} THEN MaxTrackTicks
    ELSE MaxTicks

\* a constructor that accepts a speed of zero
MoveByThrows_ZeroAccepted(speed) == speed < 0

\* MoveBy's constructor throws on a speed that is not positive
MoveByThrows(speed) == speed <= 0

ConstructorThrows(a) == Pool[a].kind = "MoveBy" /\ MoveByThrows(Pool[a].speed)

\* the object the constructor call for pool entry a yields in heap S
Construct(S, a) ==
    CASE Pool[a].kind = "Follow" -> NewFollow(S.actor.pos, S.other.pos, Pool[a].followDistance)
      [] Pool[a].kind = "Meet" -> NewMeet(S.actor.pos, S.other.pos, Pool[a].speedArg)
      [] OTHER -> Pool[a]

\* --------------------------------------------------------------- isComplete
\* In every operator below S is the heap: [actor, acts, queues, trace], where
\* trace lists the Action methods called so far in the current operation.
MoveToIsComplete(S, id) ==
    S.acts[id].stopped
    \/ (S.acts[id].defined /\ Distance(S.actor.pos, S.acts[id].start) >= S.acts[id].distance)

MoveByIsComplete(S, id) ==
    S.acts[id].stopped
    \/ (S.acts[id].defined /\ Distance(S.actor.pos, S.acts[id].start) >= S.acts[id].distance)

EaseToIsComplete(S, id) ==
    S.acts[id].stopped \/ Distance(S.actor.pos, S.acts[id].lerpStart) >= S.acts[id].distance

RotateToIsComplete(S, id) ==
    LET distanceTravelled == Abs(S.acts[id].currentNonCannonAngle - S.acts[id].start)
    IN  S.acts[id].stopped \/ (S.acts[id].defined /\ distanceTravelled >= Abs(S.acts[id].distance))

RotateByIsComplete(S, id) ==
    LET distanceTravelled == Abs(S.acts[id].currentNonCannonAngle - S.acts[id].start)
    IN  S.acts[id].stopped \/ (S.acts[id].defined /\ distanceTravelled >= Abs(S.acts[id].distance))

\* isComplete() that needs the elapsed time to pass the delay
DelayIsComplete_Late(S, id) == S.acts[id].stopped \/ S.acts[id].elapsedTime > S.acts[id].delay

DelayIsComplete(S, id) == S.acts[id].stopped \/ S.acts[id].elapsedTime >= S.acts[id].delay

\* isComplete() that does not look at the counter
RepeatIsComplete_Unbounded(S, id) == S.acts[id].stopped

RepeatIsComplete(S, id) == S.acts[id].stopped \/ S.acts[id].repeat <= 0

RepeatForeverIsComplete(S, id) == S.acts[id].stopped

\* isComplete of a Follow whose stop condition is the one Meet uses
FollowIsComplete_WithinOne(S, id) ==
    S.acts[id].stopped \/ (S.acts[id].started /\ S.acts[id].distanceBetween <= px(1))

FollowIsComplete(S, id) == S.acts[id].stopped

\* variant: Meet completes within the distance at construction, as Follow gates its motion
MeetIsComplete_Gated(S, id) ==
    \/ S.acts[id].stopped
    \/ (S.acts[id].defined /\ S.acts[id].distanceBetween <= Distance(VectorZero, S.acts[id].end))

MeetIsComplete(S, id) ==
    S.acts[id].stopped \/ (S.acts[id].defined /\ S.acts[id].distanceBetween <= px(1))

ScaleToIsComplete(S, id) ==
    S.acts[id].stopped
    \/ (/\ S.acts[id].defined
        /\ Abs(S.actor.scale.y - S.acts[id].startX) >= S.acts[id].distanceX
        /\ Abs(S.actor.scale.y - S.acts[id].startY) >= S.acts[id].distanceY)

ScaleByIsComplete(S, id) ==
    S.acts[id].stopped
    \/ (/\ S.acts[id].defined
        /\ Abs(S.actor.scale.x - S.acts[id].startScale.x) >= S.acts[id].distanceX
        /\ Abs(S.actor.scale.y - S.acts[id].startScale.y) >= S.acts[id].distanceY)

BlinkIsComplete(S, id) == S.acts[id].stopped \/ S.acts[id].totalTime >= S.acts[id].duration

FadeIsComplete(S, id) ==
    S.acts[id].stopped \/ Abs(S.actor.opacity - S.acts[id].endOpacity) < 50

DieIsComplete(S, id) == S.acts[id].stopped

CallMethodIsComplete(S, id) == S.acts[id].hasBeenCalled

IsComplete(S, id) ==
    CASE S.acts[id].kind = "MoveTo" -> MoveToIsComplete(S, id)
      [] S.acts[id].kind = "MoveBy" -> MoveByIsComplete(S, id)
      [] S.acts[id].kind = "EaseTo" -> EaseToIsComplete(S, id)
      [] S.acts[id].kind = "RotateTo" -> RotateToIsComplete(S, id)
      [] S.acts[id].kind = "RotateBy" -> RotateByIsComplete(S, id)
      [] S.acts[id].kind = "Delay" -> DelayIsComplete(S, id)
      [] S.acts[id].kind = "Repeat" -> RepeatIsComplete(S, id)
      [] S.acts[id].kind = "RepeatForever" -> RepeatForeverIsComplete(S, id)
      [] S.acts[id].kind = "Follow" -> FollowIsComplete(S, id)
      [] S.acts[id].kind = "Meet" -> MeetIsComplete(S, id)
      [] S.acts[id].kind = "ScaleTo" -> ScaleToIsComplete(S, id)
      [] S.acts[id].kind = "ScaleBy" -> ScaleByIsComplete(S, id)
      [] S.acts[id].kind = "Blink" -> BlinkIsComplete(S, id)
      [] S.acts[id].kind = "Fade" -> FadeIsComplete(S, id)
      [] S.acts[id].kind = "Die" -> DieIsComplete(S, id)
      [] S.acts[id].kind = "CallMethod" -> CallMethodIsComplete(S, id)

\* ------------------------------------------------------------------- update
\* update() that never snaps the target to the end point
MoveToUpdate_NoSnap(S, id, delta) ==
    LET a == S.acts[id]
        a1 == IF ~a.started
              THEN [a EXCEPT !.started = TRUE, !.defined = TRUE,
                             !.start = S.actor.pos,
                             !.distance = Distance(S.actor.pos, a.end),
                             !.dir = Normalize(Sub(a.end, S.actor.pos))]
              ELSE a
    IN  [S EXCEPT !.acts[id] = a1, !.actor.vel = Scale(a1.dir, a1.speed)]

MoveToUpdate(S, id, delta) ==
    LET a == S.acts[id]
        a1 == IF ~a.started
              THEN [a EXCEPT !.started = TRUE, !.defined = TRUE,
                             !.start = S.actor.pos,
                             !.distance = Distance(S.actor.pos, a.end),
                             !.dir = Normalize(Sub(a.end, S.actor.pos))]
              ELSE a
        S1 == [S EXCEPT !.acts[id] = a1, !.actor.vel = Scale(a1.dir, a1.speed)]
    IN  IF MoveToIsComplete(S1, id)
        THEN [S1 EXCEPT !.actor.pos = a1.end, !.actor.vel = VectorZero]
        ELSE S1

\* update() that leaves the velocity it has set when the move is complete
MoveByUpdate_NoSnap(S, id, delta) ==
    LET a == S.acts[id]
        a1 == IF ~a.started
              THEN [a EXCEPT !.started = TRUE, !.defined = TRUE,
                             !.start = S.actor.pos,
                             !.end = Add(S.actor.pos, a.offset),
                             !.distance = Size(a.offset),
                             !.dir = Normalize(Sub(Add(S.actor.pos, a.offset), S.actor.pos))]
              ELSE a
        S1 == [S EXCEPT !.acts[id] = a1, !.actor.vel = Scale(a1.dir, a1.speed)]
    IN  S1

MoveByUpdate(S, id, delta) ==
    LET a == S.acts[id]
        a1 == IF ~a.started
              THEN [a EXCEPT !.started = TRUE, !.defined = TRUE,
                             !.start = S.actor.pos,
                             !.end = Add(S.actor.pos, a.offset),
                             !.distance = Size(a.offset),
                             !.dir = Normalize(Sub(Add(S.actor.pos, a.offset), S.actor.pos))]
              ELSE a
        S1 == [S EXCEPT !.acts[id] = a1, !.actor.vel = Scale(a1.dir, a1.speed)]
    IN  IF MoveByIsComplete(S1, id)
        THEN [S1 EXCEPT !.actor.pos = a1.end, !.actor.vel = VectorZero]
        ELSE S1

EaseToUpdate(S, id, delta) ==
    LET a == S.acts[id]
        a1 == IF ~a.initialized
              THEN [a EXCEPT !.initialized = TRUE,
                             !.lerpStart = S.actor.pos,
                             !.currentLerpTime = 0,
                             !.distance = Distance(S.actor.pos, a.lerpEnd)]
              ELSE a
        a2 == [a1 EXCEPT !.currentLerpTime = @ + delta]
        t == a2.currentLerpTime
        newX == IF a2.lerpEnd.x < a2.lerpStart.x
                THEN a2.lerpStart.x
                     - (EasingFcn(a2.easingFcn, t, a2.lerpEnd.x, a2.lerpStart.x, a2.lerpDuration)
                        - a2.lerpEnd.x)
                ELSE EasingFcn(a2.easingFcn, t, a2.lerpStart.x, a2.lerpEnd.x, a2.lerpDuration)
        newY == IF a2.lerpEnd.y < a2.lerpStart.y
                THEN a2.lerpStart.y
                     - (EasingFcn(a2.easingFcn, t, a2.lerpEnd.y, a2.lerpStart.y, a2.lerpDuration)
                        - a2.lerpEnd.y)
                ELSE EasingFcn(a2.easingFcn, t, a2.lerpStart.y, a2.lerpEnd.y, a2.lerpDuration)
    IN  IF t < a2.lerpDuration
        THEN [S EXCEPT !.acts[id] = a2,
                       !.actor.vel = vec(Quot(newX - S.actor.pos.x, delta),
                                         Quot(newY - S.actor.pos.y, delta))]
        ELSE [S EXCEPT !.acts[id] = a2, !.actor.pos = a2.lerpEnd, !.actor.vel = VectorZero]

\* the path selection both rotate actions run on their first update
RotateToCapture(a, rotation) ==
    LET distance1 == Abs(a.end - rotation)
        distance2 == TwoPI - distance1
        short == IF distance1 > distance2 THEN distance2 ELSE distance1
        long == IF distance1 > distance2 THEN distance1 ELSE distance2
        positive == JsRem(rotation - a.end + TwoPI, TwoPI) >= PI
        b == [a EXCEPT !.started = TRUE, !.defined = TRUE, !.start = rotation,
                       !.currentNonCannonAngle = rotation,
                       !.shortDistance = short, !.longDistance = long,
                       !.shortestPathIsPositive = positive]
    IN  CASE a.rotationType = "ShortestPath" ->
               [b EXCEPT !.distance = short, !.direction = IF positive THEN 1 ELSE -1]
          [] a.rotationType = "LongestPath" ->
               [b EXCEPT !.distance = long, !.direction = IF positive THEN -1 ELSE 1]
          [] a.rotationType = "Clockwise" ->
               [b EXCEPT !.direction = 1, !.distance = IF positive THEN short ELSE long]
          [] a.rotationType = "CounterClockwise" ->
               [b EXCEPT !.direction = -1, !.distance = IF ~positive THEN short ELSE long]

RotateByCapture(a, rotation) ==
    LET end == rotation + a.offset
        distance1 == Abs(end - rotation)
        distance2 == TwoPI - distance1
        short == IF distance1 > distance2 THEN distance2 ELSE distance1
        long == IF distance1 > distance2 THEN distance1 ELSE distance2
        positive == JsRem(rotation - end + TwoPI, TwoPI) >= PI
        b == [a EXCEPT !.started = TRUE, !.defined = TRUE, !.start = rotation,
                       !.currentNonCannonAngle = rotation, !.end = end,
                       !.shortDistance = short, !.longDistance = long,
                       !.shortestPathIsPositive = positive]
    IN  CASE a.rotationType = "ShortestPath" ->
               [b EXCEPT !.distance = short, !.direction = IF positive THEN 1 ELSE -1]
          [] a.rotationType = "LongestPath" ->
               [b EXCEPT !.distance = long, !.direction = IF positive THEN -1 ELSE 1]
          [] a.rotationType = "Clockwise" ->
               [b EXCEPT !.direction = 1, !.distance = IF short >= 0 THEN short ELSE long]
          [] a.rotationType = "CounterClockwise" ->
               [b EXCEPT !.direction = -1, !.distance = IF short <= 0 THEN short ELSE long]

RotateToUpdate(S, id, delta) ==
    LET a == S.acts[id]
        a1 == IF ~a.started THEN RotateToCapture(a, S.actor.rotation) ELSE a
        a2 == [a1 EXCEPT !.currentNonCannonAngle = @ + a1.direction * a1.speed * delta]
        S1 == [S EXCEPT !.acts[id] = a2, !.actor.rx = a1.direction * a1.speed]
    IN  IF RotateToIsComplete(S1, id)
        THEN [S1 EXCEPT !.actor.rotation = CanonicalizeAngle(a2.end), !.actor.rx = 0,
                        !.acts[id].stopped = TRUE]
        ELSE S1

RotateByUpdate(S, id, delta) ==
    LET a == S.acts[id]
        a1 == IF ~a.started THEN RotateByCapture(a, S.actor.rotation) ELSE a
        a2 == [a1 EXCEPT !.currentNonCannonAngle = @ + a1.direction * a1.speed * delta]
        S1 == [S EXCEPT !.acts[id] = a2, !.actor.rx = a1.direction * a1.speed]
    IN  IF RotateByIsComplete(S1, id)
        THEN [S1 EXCEPT !.actor.rotation = CanonicalizeAngle(a2.end), !.actor.rx = 0,
                        !.acts[id].stopped = TRUE]
        ELSE S1

DelayUpdate(S, id, delta) ==
    [S EXCEPT !.acts[id].started = TRUE, !.acts[id].elapsedTime = @ + delta]

\* the fields both Follow and Meet recompute on every update
TrackCapture(S, a) ==
    LET a1 == IF ~a.started
              THEN [a EXCEPT !.started = TRUE,
                             !.distanceBetween = Distance(a.current, a.end),
                             !.dir = Normalize(Sub(a.end, a.current))]
              ELSE a
    IN  [a1 EXCEPT !.current = S.actor.pos, !.end = S.other.pos,
                   !.distanceBetween = Distance(S.actor.pos, S.other.pos),
                   !.dir = Normalize(Sub(S.other.pos, S.actor.pos))]

\* variant: the speed is the followed actor's speed of this update, never the one kept
FollowUpdate_NoRetain(S, id, delta) ==
    LET a1 == [TrackCapture(S, S.acts[id]) EXCEPT !.speed = Size(S.other.vel)]
        S1 == [S EXCEPT !.acts[id] = a1,
                        !.actor.vel = IF a1.distanceBetween >= a1.maximumDistance
                                      THEN Scale(a1.dir, a1.speed)
                                      ELSE VectorZero]
    IN  IF FollowIsComplete(S1, id)
        THEN [S1 EXCEPT !.actor.pos = a1.end, !.actor.vel = VectorZero]
        ELSE S1

FollowUpdate(S, id, delta) ==
    LET actorToFollowSpeed == Size(S.other.vel)
        a1 == TrackCapture(S, S.acts[id])
        a2 == IF actorToFollowSpeed # 0 THEN [a1 EXCEPT !.speed = actorToFollowSpeed] ELSE a1
        S1 == [S EXCEPT !.acts[id] = a2,
                        !.actor.vel = IF a2.distanceBetween >= a2.maximumDistance
                                      THEN Scale(a2.dir, a2.speed)
                                      ELSE VectorZero]
    IN  IF FollowIsComplete(S1, id)
        THEN [S1 EXCEPT !.actor.pos = a2.end, !.actor.vel = VectorZero]
        ELSE S1

\* variant: on meeting, the tracked actor is brought to rest as well
MeetUpdate_HaltsTracked(S, id, delta) ==
    LET actorToMeetSpeed == Size(S.other.vel)
        a1 == [TrackCapture(S, S.acts[id]) EXCEPT !.defined = TRUE]
        a2 == IF actorToMeetSpeed # 0 /\ ~a1.speedWasSpecified
              THEN [a1 EXCEPT !.speed = actorToMeetSpeed]
              ELSE a1
        S1 == [S EXCEPT !.acts[id] = a2, !.actor.vel = Scale(a2.dir, a2.speed)]
    IN  IF MeetIsComplete(S1, id)
        THEN [S1 EXCEPT !.actor.pos = a2.end, !.actor.vel = VectorZero, !.other.vel = VectorZero]
        ELSE S1

MeetUpdate(S, id, delta) ==
    LET actorToMeetSpeed == Size(S.other.vel)
        a1 == [TrackCapture(S, S.acts[id]) EXCEPT !.defined = TRUE]
        a2 == IF actorToMeetSpeed # 0 /\ ~a1.speedWasSpecified
              THEN [a1 EXCEPT !.speed = actorToMeetSpeed]
              ELSE a1
        S1 == [S EXCEPT !.acts[id] = a2, !.actor.vel = Scale(a2.dir, a2.speed)]
    IN  IF MeetIsComplete(S1, id)
        THEN [S1 EXCEPT !.actor.pos = a2.end, !.actor.vel = VectorZero]
        ELSE S1

ScaleToUpdate(S, id, delta) ==
    LET a == S.acts[id]
        a1 == IF ~a.started
              THEN [a EXCEPT !.started = TRUE, !.defined = TRUE,
                             !.startX = S.actor.scale.x, !.startY = S.actor.scale.y,
                             !.distanceX = Abs(a.endX - S.actor.scale.x),
                             !.distanceY = Abs(a.endY - S.actor.scale.y)]
              ELSE a
        directionX == IF a1.endY < a1.startY THEN -1 ELSE 1
        directionY == IF a1.endY < a1.startY THEN -1 ELSE 1
        S1 == [S EXCEPT !.acts[id] = a1,
                        !.actor.sx = IF ~(Abs(S.actor.scale.x - a1.startX) >= a1.distanceX)
                                     THEN a1.speedX * directionX ELSE 0,
                        !.actor.sy = IF ~(Abs(S.actor.scale.y - a1.startY) >= a1.distanceY)
                                     THEN a1.speedY * directionY ELSE 0]
    IN  IF ScaleToIsComplete(S1, id)
        THEN [S1 EXCEPT !.actor.scale = vec(a1.endX, a1.endY), !.actor.sx = 0, !.actor.sy = 0]
        ELSE S1

ScaleByUpdate(S, id, delta) ==
    LET a == S.acts[id]
        endScale == Add(S.actor.scale, a.offset)
        a1 == IF ~a.started
              THEN [a EXCEPT !.started = TRUE, !.defined = TRUE,
                             !.startScale = S.actor.scale, !.endScale = endScale,
                             !.distanceX = Abs(endScale.x - S.actor.scale.x),
                             !.distanceY = Abs(endScale.y - S.actor.scale.y),
                             !.directionX = IF endScale.x < S.actor.scale.x THEN -1 ELSE 1,
                             !.directionY = IF endScale.y < S.actor.scale.y THEN -1 ELSE 1]
              ELSE a
        S1 == [S EXCEPT !.acts[id] = a1,
                        !.actor.sx = a1.speedX * a1.directionX,
                        !.actor.sy = a1.speedY * a1.directionY]
    IN  IF ScaleByIsComplete(S1, id)
        THEN [S1 EXCEPT !.actor.scale = a1.endScale, !.actor.sx = 0, !.actor.sy = 0]
        ELSE S1

\* update() that leaves the visibility its phase gives on the completing update
BlinkUpdate_PhaseOnly(S, id, delta) ==
    LET a1 == [S.acts[id] EXCEPT !.started = TRUE, !.elapsedTime = @ + delta,
                                 !.totalTime = @ + delta]
        hide == S.actor.visible /\ a1.elapsedTime >= a1.timeVisible
        a2 == IF hide THEN [a1 EXCEPT !.elapsedTime = 0] ELSE a1
        visible2 == IF hide THEN FALSE ELSE S.actor.visible
        show == ~visible2 /\ a2.elapsedTime >= a2.timeNotVisible
        a3 == IF show THEN [a2 EXCEPT !.elapsedTime = 0] ELSE a2
        visible3 == IF show THEN TRUE ELSE visible2
        S1 == [S EXCEPT !.acts[id] = a3, !.actor.visible = visible3]
    IN  S1

\* update() that hides the target only once the visible time has passed timeVisible
BlinkUpdate_Exclusive(S, id, delta) ==
    LET a1 == [S.acts[id] EXCEPT !.started = TRUE, !.elapsedTime = @ + delta,
                                 !.totalTime = @ + delta]
        hide == S.actor.visible /\ a1.elapsedTime > a1.timeVisible
        a2 == IF hide THEN [a1 EXCEPT !.elapsedTime = 0] ELSE a1
        visible2 == IF hide THEN FALSE ELSE S.actor.visible
        show == ~visible2 /\ a2.elapsedTime >= a2.timeNotVisible
        a3 == IF show THEN [a2 EXCEPT !.elapsedTime = 0] ELSE a2
        visible3 == IF show THEN TRUE ELSE visible2
        S1 == [S EXCEPT !.acts[id] = a3, !.actor.visible = visible3]
    IN  IF BlinkIsComplete(S1, id) THEN [S1 EXCEPT !.actor.visible = TRUE] ELSE S1

BlinkUpdate(S, id, delta) ==
    LET a1 == [S.acts[id] EXCEPT !.started = TRUE, !.elapsedTime = @ + delta,
                                 !.totalTime = @ + delta]
        hide == S.actor.visible /\ a1.elapsedTime >= a1.timeVisible
        a2 == IF hide THEN [a1 EXCEPT !.elapsedTime = 0] ELSE a1
        visible2 == IF hide THEN FALSE ELSE S.actor.visible
        show == ~visible2 /\ a2.elapsedTime >= a2.timeNotVisible
        a3 == IF show THEN [a2 EXCEPT !.elapsedTime = 0] ELSE a2
        visible3 == IF show THEN TRUE ELSE visible2
        S1 == [S EXCEPT !.acts[id] = a3, !.actor.visible = visible3]
    IN  IF BlinkIsComplete(S1, id) THEN [S1 EXCEPT !.actor.visible = TRUE] ELSE S1

\* update() that does not take the delta off the remaining time
FadeUpdate_FixedSpeed(S, id, delta) ==
    LET a == S.acts[id]
        a1 == IF ~a.started
              THEN [a EXCEPT !.started = TRUE,
                             !.multiplier = IF a.endOpacity < S.actor.opacity THEN -1 ELSE 1]
              ELSE a
        opacity1 == IF a1.speed > 0
                    THEN S.actor.opacity
                         + Quot(a1.multiplier * (Abs(S.actor.opacity - a1.endOpacity) * delta),
                                a1.speed)
                    ELSE S.actor.opacity
        S1 == [S EXCEPT !.acts[id] = a1, !.actor.opacity = opacity1]
    IN  IF FadeIsComplete(S1, id) THEN [S1 EXCEPT !.actor.opacity = a1.endOpacity] ELSE S1

FadeUpdate(S, id, delta) ==
    LET a == S.acts[id]
        a1 == IF ~a.started
              THEN [a EXCEPT !.started = TRUE,
                             !.multiplier = IF a.endOpacity < S.actor.opacity THEN -1 ELSE 1]
              ELSE a
        opacity1 == IF a1.speed > 0
                    THEN S.actor.opacity
                         + Quot(a1.multiplier * (Abs(S.actor.opacity - a1.endOpacity) * delta),
                                a1.speed)
                    ELSE S.actor.opacity
        S1 == [S EXCEPT !.acts[id] = [a1 EXCEPT !.speed = @ - delta], !.actor.opacity = opacity1]
    IN  IF FadeIsComplete(S1, id) THEN [S1 EXCEPT !.actor.opacity = a1.endOpacity] ELSE S1

\* update() invoking the method without recording that it has been called
CallMethodUpdate_Unrecorded(S, id, delta) == [S EXCEPT !.acts[id].invoked = @ + 1]

CallMethodUpdate(S, id, delta) ==
    [S EXCEPT !.acts[id].invoked = @ + 1, !.acts[id].hasBeenCalled = TRUE]

\* -------------------------------------------------------------------- reset
\* A method call on undefined throws a TypeError, which ends every call in
\* progress: the trace of an operation that threw ends with the TypeError.
Throw(S) == [S EXCEPT !.trace = Append(@, <<"TypeError", Undefined>>)]

Threw(S) == S.trace # <<>> /\ S.trace[Len(S.trace)][1] = "TypeError"

\* reset() that leaves the remaining-cycle counter of a Repeat as it is
ActionReset_KeepsCount(S, id) ==
    LET T == [S EXCEPT !.trace = Append(@, <<"reset", id>>)]
    IN  IF id = Undefined THEN Throw(S) ELSE
        CASE T.acts[id].kind \in {"MoveTo", "MoveBy", "RotateTo", "RotateBy", "Follow", "Meet",
                                   "ScaleTo", "ScaleBy", "Fade"} ->
               [T EXCEPT !.acts[id].started = FALSE]
          [] T.acts[id].kind = "Blink" ->
               [T EXCEPT !.acts[id].started = FALSE, !.acts[id].elapsedTime = 0,
                         !.acts[id].totalTime = 0]
          [] T.acts[id].kind = "Die" -> T
          [] T.acts[id].kind = "CallMethod" -> [T EXCEPT !.acts[id].hasBeenCalled = FALSE]
          [] T.acts[id].kind = "EaseTo" -> [T EXCEPT !.acts[id].initialized = FALSE]
          [] T.acts[id].kind = "Delay" ->
               [T EXCEPT !.acts[id].elapsedTime = 0, !.acts[id].started = FALSE]
          [] T.acts[id].kind = "Repeat" -> T
          [] T.acts[id].kind = "RepeatForever" -> T

ActionReset(S, id) ==
    LET T == [S EXCEPT !.trace = Append(@, <<"reset", id>>)]
    IN  IF id = Undefined THEN Throw(S) ELSE
        CASE T.acts[id].kind \in {"MoveTo", "MoveBy", "RotateTo", "RotateBy", "Follow", "Meet",
                                   "ScaleTo", "ScaleBy", "Fade"} ->
               [T EXCEPT !.acts[id].started = FALSE]
          [] T.acts[id].kind = "Blink" ->
               [T EXCEPT !.acts[id].started = FALSE, !.acts[id].elapsedTime = 0,
                         !.acts[id].totalTime = 0]
          [] T.acts[id].kind = "Die" -> T
          [] T.acts[id].kind = "CallMethod" -> [T EXCEPT !.acts[id].hasBeenCalled = FALSE]
          [] T.acts[id].kind = "EaseTo" -> [T EXCEPT !.acts[id].initialized = FALSE]
          [] T.acts[id].kind = "Delay" ->
               [T EXCEPT !.acts[id].elapsedTime = 0, !.acts[id].started = FALSE]
          [] T.acts[id].kind = "Repeat" ->
               [T EXCEPT !.acts[id].repeat = T.acts[id].originalRepeat]
          [] T.acts[id].kind = "RepeatForever" -> T

\* ------------------------------------------------------------- ActionQueue
\* add() putting the action in front of the pending list
QueueAdd_Unshift(S, q, action) == [S EXCEPT !.queues[q].actions = <<action>> \o @]

QueueAdd(S, q, action) == [S EXCEPT !.queues[q].actions = Append(@, action)]

QueueRemove(S, q, action) ==
    [S EXCEPT !.queues[q].actions = Splice1(@, IndexOf(@, action))]

\* getActions() that returns the pending list only
QueueGetActions_PendingOnly(S, q) == S.queues[q].actions

QueueGetActions(S, q) == S.queues[q].actions \o S.queues[q].completedActions

QueueHasNext(S, q) == Len(S.queues[q].actions) > 0

RECURSIVE ResetEach(_, _)
ResetEach(S, list) ==
    IF list = <<>> \/ Threw(S) THEN S
    ELSE ResetEach(ActionReset(S, Head(list)), Tail(list))

\* the last statement of reset(), skipped when a reset() call threw
QueueResetDone(S, q) ==
    IF Threw(S) THEN S ELSE [S EXCEPT !.queues[q].completedActions = <<>>]

QueueReset(S, q) ==
    QueueResetDone(ResetEach([S EXCEPT !.queues[q].actions = QueueGetActions(S, q)],
                             QueueGetActions(S, q)), q)

RECURSIVE ActionUpdate(_, _, _)
RECURSIVE QueueUpdate(_, _, _)
RECURSIVE ActionStop(_, _)
RECURSIVE QueueClearActions(_, _)

DieUpdate(S, id, delta) ==
    LET S1 == QueueClearActions(S, ActorQueue)
    IN  [S1 EXCEPT !.actor.killed = TRUE, !.acts[id].stopped = TRUE]

\* this._repeat--, skipped when the reset before it threw
RepeatDecrement(S, id) == IF Threw(S) THEN S ELSE [S EXCEPT !.acts[id].repeat = @ - 1]

RepeatUpdate(S, id, delta) ==
    QueueUpdate(IF ~QueueHasNext(S, id) THEN RepeatDecrement(QueueReset(S, id), id) ELSE S,
                id, delta)

\* update() that does not reset the inner queue when nothing is pending
RepeatForeverUpdate_NoReplay(S, id, delta) ==
    IF S.acts[id].stopped THEN S ELSE QueueUpdate(S, id, delta)

RepeatForeverUpdate(S, id, delta) ==
    IF S.acts[id].stopped THEN S
    ELSE QueueUpdate(IF ~QueueHasNext(S, id) THEN QueueReset(S, id) ELSE S, id, delta)

ActionUpdate(S, id, delta) ==
    LET T == [S EXCEPT !.trace = Append(@, <<"update", id>>)]
    IN  IF id = Undefined THEN Throw(S) ELSE
        CASE T.acts[id].kind = "MoveTo" -> MoveToUpdate(T, id, delta)
          [] T.acts[id].kind = "MoveBy" -> MoveByUpdate(T, id, delta)
          [] T.acts[id].kind = "EaseTo" -> EaseToUpdate(T, id, delta)
          [] T.acts[id].kind = "RotateTo" -> RotateToUpdate(T, id, delta)
          [] T.acts[id].kind = "RotateBy" -> RotateByUpdate(T, id, delta)
          [] T.acts[id].kind = "Delay" -> DelayUpdate(T, id, delta)
          [] T.acts[id].kind = "Repeat" -> RepeatUpdate(T, id, delta)
          [] T.acts[id].kind = "RepeatForever" -> RepeatForeverUpdate(T, id, delta)
          [] T.acts[id].kind = "Follow" -> FollowUpdate(T, id, delta)
          [] T.acts[id].kind = "Meet" -> MeetUpdate(T, id, delta)
          [] T.acts[id].kind = "ScaleTo" -> ScaleToUpdate(T, id, delta)
          [] T.acts[id].kind = "ScaleBy" -> ScaleByUpdate(T, id, delta)
          [] T.acts[id].kind = "Blink" -> BlinkUpdate(T, id, delta)
          [] T.acts[id].kind = "Fade" -> FadeUpdate(T, id, delta)
          [] T.acts[id].kind = "Die" -> DieUpdate(T, id, delta)
          [] T.acts[id].kind = "CallMethod" -> CallMethodUpdate(T, id, delta)

\* the end of update(): the head, once complete, is shifted to the completed
\* list; shift() of an empty array yields undefined
QueueRetire(S, q) ==
    IF Threw(S) THEN S
    ELSE IF IsComplete(S, S.queues[q].currentAction)
    THEN [S EXCEPT !.queues[q].completedActions =
                       Append(@, IF S.queues[q].actions = <<>> THEN Undefined
                                 ELSE Head(S.queues[q].actions)),
                   !.queues[q].actions =
                       IF S.queues[q].actions = <<>> THEN <<>> ELSE Tail(S.queues[q].actions)]
    ELSE S

\* update() that goes on to update the next action when it has retired the head
QueueUpdate_Chained(S, q, delta) ==
    IF Threw(S) THEN S
    ELSE IF Len(S.queues[q].actions) > 1
    THEN LET R == QueueRetire(ActionUpdate([S EXCEPT !.queues[q].currentAction =
                                                         S.queues[q].actions[1]],
                                            S.queues[q].actions[1], delta), q)
         IN  IF Len(R.queues[q].actions) < Len(S.queues[q].actions) /\ R.queues[q].actions # <<>>
             THEN ActionUpdate([R EXCEPT !.queues[q].currentAction = R.queues[q].actions[1]],
                               R.queues[q].actions[1], delta)
             ELSE R
    ELSE IF Len(S.queues[q].actions) > 0
    THEN QueueRetire(ActionUpdate([S EXCEPT !.queues[q].currentAction = S.queues[q].actions[1]],
                                  S.queues[q].actions[1], delta), q)
    ELSE S

\* a call made while an exception propagates does not happen
QueueUpdate(S, q, delta) ==
    IF Threw(S) THEN S
    ELSE IF Len(S.queues[q].actions) > 0
    THEN QueueRetire(ActionUpdate([S EXCEPT !.queues[q].currentAction = S.queues[q].actions[1]],
                                  S.queues[q].actions[1], delta), q)
    ELSE S

\* --------------------------------------------------------------------- stop
RepeatStop(S, id) == [S EXCEPT !.acts[id].stopped = TRUE]

RepeatForeverStop(S, id) == QueueClearActions([S EXCEPT !.acts[id].stopped = TRUE], id)

\* stop() that only sets the stopped flag of a plain action
ActionStop_FlagOnly(S, id) ==
    LET T == [S EXCEPT !.trace = Append(@, <<"stop", id>>)]
    IN  CASE T.acts[id].kind = "Repeat" -> RepeatStop(T, id)
          [] T.acts[id].kind = "RepeatForever" -> RepeatForeverStop(T, id)
          [] T.acts[id].kind = "Blink" ->
               [T EXCEPT !.actor.visible = TRUE, !.acts[id].stopped = TRUE]
          [] T.acts[id].kind = "Die" -> T
          [] T.acts[id].kind = "CallMethod" -> [T EXCEPT !.acts[id].hasBeenCalled = TRUE]
          [] OTHER -> [T EXCEPT !.acts[id].stopped = TRUE]

ActionStop(S, id) ==
    LET T == [S EXCEPT !.trace = Append(@, <<"stop", id>>)]
    IN  CASE T.acts[id].kind \in {"MoveTo", "MoveBy", "EaseTo", "Follow", "Meet"} ->
               [T EXCEPT !.actor.vel = VectorZero, !.acts[id].stopped = TRUE]
          [] T.acts[id].kind \in {"ScaleTo", "ScaleBy"} ->
               [T EXCEPT !.actor.sx = 0, !.actor.sy = 0, !.acts[id].stopped = TRUE]
          [] T.acts[id].kind = "Blink" ->
               [T EXCEPT !.actor.visible = TRUE, !.acts[id].stopped = TRUE]
          [] T.acts[id].kind = "Fade" -> [T EXCEPT !.acts[id].stopped = TRUE]
          [] T.acts[id].kind = "Die" -> T
          [] T.acts[id].kind = "CallMethod" -> [T EXCEPT !.acts[id].hasBeenCalled = TRUE]
          [] T.acts[id].kind \in {"RotateTo", "RotateBy"} ->
               [T EXCEPT !.actor.rx = 0, !.acts[id].stopped = TRUE]
          [] T.acts[id].kind = "Delay" -> [T EXCEPT !.acts[id].stopped = TRUE]
          [] T.acts[id].kind = "Repeat" -> RepeatStop(T, id)
          [] T.acts[id].kind = "RepeatForever" -> RepeatForeverStop(T, id)

\* clearActions() that truncates the pending list only
QueueClearActions_KeepCompleted(S, q) ==
    LET S1 == [S EXCEPT !.queues[q].actions = <<>>]
    IN  IF S1.queues[q].currentAction # Undefined
        THEN ActionStop(S1, S1.queues[q].currentAction)
        ELSE S1

QueueClearActions(S, q) ==
    LET S1 == [S EXCEPT !.queues[q].actions = <<>>, !.queues[q].completedActions = <<>>]
    IN  IF S1.queues[q].currentAction # Undefined
        THEN ActionStop(S1, S1.queues[q].currentAction)
        ELSE S1

\* Actor.update's Euler step after the queue update
Integrate(a, delta) ==
    [a EXCEPT !.pos = vec(a.pos.x + a.vel.x * delta, a.pos.y + a.vel.y * delta),
              !.rotation = CanonicalizeAngle(a.rotation + a.rx * delta),
              !.scale = vec(a.scale.x + a.sx * delta, a.scale.y + a.sy * delta)]

\* -------------------------------------------------------------------- state
VARIABLES
    actor,       \* the Actor's kinematic fields
    other,       \* the kinematic fields of the actor that Follow and Meet track
    acts,        \* the Action objects, by id
    queues,      \* the ActionQueue objects: actor.actionQueue and one per composite
    trace,       \* Action methods called by the last operation, in call order
    avail,       \* the actions this run's caller constructs
    added,       \* actions passed to actor.actionQueue.add, in call order
    op,          \* the last operation and its argument
    ticks,       \* number of Actor.update calls so far
    calls,       \* number of direct remove/clearActions/reset/stop calls so far
    stopCalled,  \* actions whose stop() has been called
    updated,     \* actions whose update() has been called
    retired,     \* actions the actor's queue has moved to its completed list
    frozen       \* what the last clearActions found, until the next add or direct update

vars == <<actor, other, acts, queues, trace, avail, added, op, ticks, calls, stopCalled, updated, retired, frozen>>

Heap == [actor |-> actor, other |-> other, acts |-> acts, queues |-> queues, trace |-> <<>>]

Called(tr, method) == {tr[i][2] : i \in {j \in 1..Len(tr) : tr[j][1] = method}}

Commit(S) ==
    /\ actor' = S.actor
    /\ other' = S.other
    /\ acts' = S.acts
    /\ queues' = S.queues
    /\ trace' = S.trace
    /\ stopCalled' = stopCalled \cup Called(S.trace, "stop")
    /\ updated' = updated \cup Called(S.trace, "update")
    /\ retired' = retired \cup RangeOf(S.queues[ActorQueue].completedActions)

NotFrozen == [on |-> FALSE, head |-> Undefined, pos |-> VectorZero, rotation |-> 0]

\* the head of the actor's queue when it is the action the queue updated last,
\* has been updated and is not complete; Undefined otherwise
InFlightHead ==
    LET q == queues[ActorQueue]
    IN  IF /\ q.actions # <<>>
           /\ q.currentAction = q.actions[1]
           /\ q.actions[1] \in updated
           /\ ~IsComplete(Heap, q.actions[1])
        THEN q.actions[1]
        ELSE Undefined

\* the objects of a run: the actions its caller constructs, the inner actions
\* of the composites among them, and the action in the other actor's queue
Constructed(scenario) ==
    LET inner(A) == A \cup UNION {RangeOf(Pool[c].inner) : c \in A \cap Composites}
    IN  inner(inner(scenario)) \cup {OtherMoveTo}

\* the target as the run's caller set it up
StartActor(scenario) ==
    IF scenario \in FadeInScenarios \cup FadeReplayScenarios
    THEN [NewActor(0, 0) EXCEPT !.opacity = 0]
    ELSE NewActor(0, 0)

InitWith(scenarios) ==
    /\ avail \in scenarios
    /\ actor = StartActor(avail)
    /\ other = NewActor(10, 0)
    /\ acts = [a \in Constructed(avail) |-> Pool[a]]
    /\ queues = [q \in {ActorQueue, OtherQueue} \cup (Constructed(avail) \cap Composites) |->
                    CASE q = ActorQueue -> NewActionQueue
                      [] q = OtherQueue -> [NewActionQueue EXCEPT !.actions = <<OtherMoveTo>>]
                      [] OTHER -> [NewActionQueue EXCEPT !.actions = Pool[q].inner]]
    /\ trace = <<>>
    /\ added = <<>>
    /\ op = [name |-> "new", arg |-> 0]
    /\ ticks = 0
    /\ calls = 0
    /\ stopCalled = {}
    /\ updated = {}
    /\ retired = {}
    /\ frozen = NotFrozen

Init == InitWith(Scenarios)

\* the actions the caller holds a reference to: those added and, for an added
\* composite, the inner actions it was constructed with
Held == RangeOf(added) \cup UNION {RangeOf(Pool[c].inner) : c \in RangeOf(added) \cap Composites}

\* actor.actionQueue.add(a) with a freshly constructed action
AddAction(a) ==
    /\ a \in avail
    /\ a \notin RangeOf(added)
    /\ Len(added) < MaxQueue
    /\ ~ConstructorThrows(a)
    /\ Commit(QueueAdd([Heap EXCEPT !.acts[a] = Construct(Heap, a)], ActorQueue, a))
    /\ added' = Append(added, a)
    /\ op' = [name |-> "add", arg |-> a]
    /\ frozen' = NotFrozen
    /\ UNCHANGED <<avail, ticks, calls>>

\* a constructor call that throws: no object is produced and nothing is added
ConstructFails(a) ==
    /\ a \in avail
    /\ Len(added) < MaxQueue
    /\ ConstructorThrows(a)
    /\ op' = [name |-> "throw", arg |-> a]
    /\ trace' = <<>>
    /\ UNCHANGED <<actor, other, acts, queues, avail, added, ticks, calls, stopCalled,
                   updated, retired, frozen>>

\* actor.actionQueue.remove(a)
RemoveAction(a) ==
    /\ a \in avail
    /\ calls < MaxCalls
    /\ Commit(QueueRemove(Heap, ActorQueue, a))
    /\ op' = [name |-> "remove", arg |-> a]
    /\ calls' = calls + 1
    /\ UNCHANGED <<avail, added, ticks, frozen>>

\* actor.actionQueue.clearActions()
ClearActions ==
    /\ calls < MaxCalls
    /\ Commit(QueueClearActions(Heap, ActorQueue))
    /\ op' = [name |-> "clearActions", arg |-> 0]
    /\ calls' = calls + 1
    /\ frozen' = [on |-> TRUE, head |-> InFlightHead, pos |-> actor.pos,
                  rotation |-> actor.rotation]
    /\ UNCHANGED <<avail, added, ticks>>

\* actor.actionQueue.reset()
Reset ==
    /\ calls < MaxCalls
    /\ Commit(QueueReset(Heap, ActorQueue))
    /\ op' = [name |-> "reset", arg |-> 0]
    /\ calls' = calls + 1
    /\ UNCHANGED <<avail, added, ticks, frozen>>

\* a.stop() called directly on an action that was added
StopAction(a) ==
    /\ a \in RangeOf(added)
    /\ calls < MaxCalls
    /\ Commit(ActionStop(Heap, a))
    /\ op' = [name |-> "stop", arg |-> a]
    /\ calls' = calls + 1
    /\ UNCHANGED <<avail, added, ticks, frozen>>

\* the Euler step of a with delta stays within the world limit
StepFits(a, delta) ==
    /\ Abs(a.vel.x) <= WorldLimit \div delta
    /\ Abs(a.vel.y) <= WorldLimit \div delta

\* the Euler step that follows the queue update S, unless the queue update threw
EulerStep(S, delta) ==
    /\ StepFits(S.actor, delta)
    /\ Commit(IF Threw(S) THEN S ELSE [S EXCEPT !.actor = Integrate(S.actor, delta)])

\* Actor.update(engine, delta): the queue update, then the Euler step
ActorUpdate(delta) ==
    /\ ticks < TickLimit(avail)
    /\ EulerStep(QueueUpdate(Heap, ActorQueue, delta), delta)
    /\ op' = [name |-> "update", arg |-> delta]
    /\ ticks' = ticks + 1
    /\ UNCHANGED <<avail, added, calls, frozen>>

\* a.stop() called directly on an inner action of a composite that was added
StopInner(a) ==
    /\ a \in Held \ RangeOf(added)
    /\ calls < MaxCalls
    /\ Commit(ActionStop(Heap, a))
    /\ op' = [name |-> "stop", arg |-> a]
    /\ calls' = calls + 1
    /\ UNCHANGED <<avail, added, ticks, frozen>>

\* a.update(delta) called directly on an action the caller holds, once the
\* action reports complete
UpdateAction(a, delta) ==
    /\ a \in Held
    /\ calls < MaxCalls
    /\ IsComplete(Heap, a)
    /\ Commit(ActionUpdate(Heap, a, delta))
    /\ op' = [name |-> "updateAction", arg |-> a]
    /\ calls' = calls + 1
    /\ frozen' = NotFrozen
    /\ UNCHANGED <<avail, added, ticks>>

\* the Euler step of the tracked actor after its queue update S, in which the
\* two actors have traded places
OtherEulerStep(S, delta) ==
    Commit([S EXCEPT !.actor = S.other,
                     !.other = IF Threw(S) THEN S.actor ELSE Integrate(S.actor, delta)])

\* update(engine, delta) of the tracked actor: its queue update, then the Euler step
OtherUpdate(delta) ==
    /\ avail \cap Trackers # {}
    /\ ticks < TickLimit(avail)
    /\ OtherEulerStep(QueueUpdate([Heap EXCEPT !.actor = other, !.other = actor],
                                  OtherQueue, delta), delta)
    /\ op' = [name |-> "updateOther", arg |-> delta]
    /\ ticks' = ticks + 1
    /\ UNCHANGED <<avail, added, calls, frozen>>

Next ==
    \/ \E a \in Ids : AddAction(a)
    \/ \E a \in Ids : RemoveAction(a)
    \/ ClearActions
    \/ Reset
    \/ \E a \in Ids : StopAction(a)
    \/ \E delta \in Deltas : ActorUpdate(delta)

Spec == Init /\ [][Next]_vars

\* runs in which the actor follows or meets the other actor, both being updated
TrackInit == InitWith(TrackScenarios)

TrackNext ==
    \/ \E a \in Ids : AddAction(a)
    \/ ClearActions
    \/ Reset
    \/ \E a \in Ids : StopAction(a)
    \/ \E a \in Ids, delta \in DirectDeltas : UpdateAction(a, delta)
    \/ \E delta \in OtherDeltas : OtherUpdate(delta)
    \/ \E delta \in Deltas : ActorUpdate(delta)

TrackSpec == TrackInit /\ [][TrackNext]_vars

\* runs over every action kind in which the caller also updates and stops
\* actions directly and calls constructors that throw
KindInit == InitWith(KindScenarios)

KindNext ==
    \/ \E a \in Ids : AddAction(a)
    \/ \E a \in Ids : ConstructFails(a)
    \/ ClearActions
    \/ Reset
    \/ \E a \in Ids : StopAction(a)
    \/ \E a \in Ids : StopInner(a)
    \/ \E a \in Ids, delta \in DirectDeltas : UpdateAction(a, delta)
    \/ \E delta \in Deltas : ActorUpdate(delta)

KindSpec == KindInit /\ [][KindNext]_vars

\* runs that blink and fade the target in ticks of 20 ms and 200 ms
TimedInit == InitWith(TimedScenarios)

TimedNext ==
    \/ \E a \in Ids : AddAction(a)
    \/ ClearActions
    \/ Reset
    \/ \E a \in Ids : StopAction(a)
    \/ \E a \in Ids, delta \in DirectDeltas : UpdateAction(a, delta)
    \/ \E delta \in TimedDeltas : ActorUpdate(delta)

TimedSpec == TimedInit /\ [][TimedNext]_vars

\* runs whose queue holds actions that end and which the engine keeps updating
LiveInit == InitWith(LiveScenarios)

\* the caller adds an action while the run has ticks left for the queue
LiveAdd(a) == ticks + RunTicks <= MaxLiveTicks /\ AddAction(a)

\* the caller resets the queue while the run has ticks left for the queue
LiveReset == ticks + RunTicks <= MaxLiveTicks /\ Reset

LiveTick == \E delta \in LiveDeltas : ActorUpdate(delta)

LiveNext ==
    \/ \E a \in Ids : LiveAdd(a)
    \/ LiveReset
    \/ LiveTick

\* a frame of the engine's main loop: one more Actor.update has run. The steps
\* of LiveNext that count a tick are those of LiveTick
LiveFrame == ticks < TickLimit(avail) /\ ticks' = ticks + 1

\* LiveTick can be taken at a state: the run has ticks left and the step fits
LiveTickEnabled ==
    \E delta \in LiveDeltas :
        /\ ticks < TickLimit(avail)
        /\ StepFits(QueueUpdate(Heap, ActorQueue, delta).actor, delta)

\* Actor.update runs in every frame of the engine's main loop
LiveSpec == LiveInit /\ [][LiveNext]_vars /\ WF_ticks(LiveFrame)

\* =================================================================== claims
Kind(a) == Pool[a].kind

Pending == queues[ActorQueue].actions

Completed == queues[ActorQueue].completedActions

\* positions in tr of the calls of `method`
CallsOf(tr, method) == {i \in 1..Len(tr) : tr[i][1] = method}

\* the actions a queue was built from: the actor's queue holds what was added,
\* a composite's queue its inner list
Members(q) ==
    CASE q = ActorQueue -> RangeOf(added)
      [] q = OtherQueue -> {OtherMoveTo}
      [] OTHER -> RangeOf(Pool[q].inner)

\* the actions still held by the actor's queue, in the order they were added
InsertionOrder ==
    SelectSeq(added, LAMBDA a : a \in RangeOf(Pending) \cup RangeOf(Completed))

\* the actions added before a, as far as the actor's queue still holds them
AddedBefore(a) ==
    {added[i] : i \in {j \in 1..Len(added) :
        /\ j < IndexOf(added, a) + 1
        /\ added[j] \in RangeOf(Pending) \cup RangeOf(Completed)}}

\* C1: within one queue, an action receives its first update only after every
\* action added before it (and still held by the queue) has been retired to the
\* completed list, and one call of ActionQueue.update updates at most one
\* action of that queue, the head of its pending list; it never also updates
\* the next action in the call that retires the head.
C1_UpdatedInInsertionOrder ==
    [][op'.name = "update" =>
          /\ \A q \in DOMAIN queues :
                Cardinality({i \in CallsOf(trace', "update") : trace'[i][2] \in Members(q)}) <= 1
          /\ \A a \in Called(trace', "update") \cap RangeOf(added) :
                /\ Pending # <<>>
                /\ a = Pending[1]
                /\ a \notin updated => AddedBefore(a) \subseteq retired]_vars

\* a tick that retires the head while a later action waits, after the action
\* added second had its first update
C1_Witness ==
    /\ op.name = "update"
    /\ Len(added) >= 2
    /\ added[2] \in updated
    /\ added[1] \in retired
    /\ Pending # <<>>
    /\ Completed # <<>>
    /\ Completed[Len(Completed)] \in Called(trace, "update")

\* C2 (stated as claimed): remove(action) with an action that is not pending
\* leaves the pending list and the completed list as they were.
C2_RemoveAbsentIsNoOp ==
    [][(op'.name = "remove" /\ op'.arg \notin RangeOf(Pending)) =>
          /\ queues'[ActorQueue].actions = Pending
          /\ queues'[ActorQueue].completedActions = Completed]_vars

\* C3 (stated as claimed): reset() leaves the pending list equal to all actions
\* of the queue in their original insertion order and the completed list empty.
C3_ResetRestoresInsertionOrder ==
    [][op'.name = "reset" =>
          /\ queues'[ActorQueue].actions = InsertionOrder
          /\ queues'[ActorQueue].completedActions = <<>>]_vars

\* an action's own stop condition, leaving out the stopped flag
StopConditionMet(a) ==
    CASE Kind(a) \in {"MoveTo", "MoveBy"} ->
           acts[a].defined /\ Distance(actor.pos, acts[a].start) >= acts[a].distance
      [] Kind(a) = "EaseTo" -> Distance(actor.pos, acts[a].lerpStart) >= acts[a].distance
      [] Kind(a) \in {"RotateTo", "RotateBy"} ->
           /\ acts[a].defined
           /\ Abs(acts[a].currentNonCannonAngle - acts[a].start) >= Abs(acts[a].distance)
      [] Kind(a) = "Delay" -> acts[a].elapsedTime >= acts[a].delay
      [] Kind(a) = "Repeat" -> acts[a].repeat <= 0
      [] Kind(a) = "RepeatForever" -> FALSE

\* C4 (stated as claimed): an action that completed on its own and was reset is
\* re-armed: as long as stop() was never called on it, it reports isComplete
\* only when its own stop condition is met for the baseline it last captured;
\* a replayed RotateTo/RotateBy with angular distance left is not complete.
C4_ResetRearmsCompleted ==
    \A a \in DOMAIN acts : (a \notin stopCalled /\ IsComplete(Heap, a)) => StopConditionMet(a)

\* C5: clearActions empties the pending and the completed list and calls stop()
\* on the action the queue updated last; afterwards the pending list stays
\* empty until an action is added, and a queue update with nothing pending
\* changes no action, no queue and nothing of the target (the tick only
\* integrates the velocities the target already had).
C5_ClearActionsEmptiesAndStops ==
    /\ [][op'.name = "clearActions" =>
             /\ queues'[ActorQueue].actions = <<>>
             /\ queues'[ActorQueue].completedActions = <<>>
             /\ ~QueueHasNext([Heap EXCEPT !.queues = queues'], ActorQueue)
             /\ QueueGetActions([Heap EXCEPT !.queues = queues'], ActorQueue) = <<>>
             /\ queues[ActorQueue].currentAction # Undefined =>
                   (trace' # <<>> /\ trace'[1] = <<"stop", queues[ActorQueue].currentAction>>)]_vars
    /\ [][(Pending = <<>> /\ Completed = <<>> /\ op'.name # "add") =>
             queues'[ActorQueue].actions = <<>>]_vars
    /\ [][(Pending = <<>> /\ op'.name = "update") =>
             /\ trace' = <<>>
             /\ acts' = acts
             /\ queues' = queues
             /\ actor' = Integrate(actor, op'.arg)]_vars

\* a tick after a clearActions that stopped an in-flight head
C5_Witness ==
    /\ op.name = "update"
    /\ frozen.on
    /\ frozen.head # Undefined
    /\ Pending = <<>>
    /\ stopCalled # {}

C7_ClearPropagatesThroughComposite ==
    [][(/\ op'.name = "clearActions"
        /\ InFlightHead # Undefined
        /\ Kind(InFlightHead) \in {"Repeat", "RepeatForever"}
        /\ queues[InFlightHead].actions # <<>>
        /\ queues[InFlightHead].currentAction = queues[InFlightHead].actions[1]
        /\ Kind(queues[InFlightHead].actions[1]) = "MoveTo"
        /\ actor.vel # VectorZero) =>
          actor'.vel = VectorZero]_vars

\* C8 (stated as claimed): Repeat(1, [MoveTo(20,0,10), MoveTo(0,0,10)]) on a
\* target starting at (0,0), driven by ticks only: once the Repeat has reported
\* complete and been retired, the target is back at x = 0 with zero velocity
\* and stays there.
C8_RepeatOnceDoesNotRestart ==
    (avail = {8} /\ calls = 0 /\ 8 \in RangeOf(Completed)) =>
        (actor.vel = VectorZero /\ actor.pos.x = 0)

\* the calls the update of a RepeatForever r makes when it replays its list:
\* reset of every inner action in list order, then update of the first one
ReplayCalls(r) ==
    [i \in 1..Len(Pool[r].inner) |-> <<"reset", Pool[r].inner[i]>>]
        \o <<<<"update", Pool[r].inner[1]>>>>

\* C9: a RepeatForever reports isComplete only once stop() has been called on
\* it, and an update of an unstopped RepeatForever whose inner queue has nothing
\* pending resets the inner queue (every inner action, in list order, back in
\* the pending list) and updates the first inner action in that same call.
C9_RepeatForeverOnlyStops ==
    /\ [](\A r \in DOMAIN acts : (Kind(r) = "RepeatForever" /\ IsComplete(Heap, r)) => r \in stopCalled)
    /\ [][\A i \in CallsOf(trace', "update") :
             LET r == trace'[i][2]
             IN  (/\ op'.name = "update"
                  /\ Kind(r) = "RepeatForever"
                  /\ ~acts[r].stopped
                  /\ queues[r].actions = <<>>) =>
                    /\ Len(trace') >= i + Len(ReplayCalls(r))
                    /\ SubSeq(trace', i + 1, i + Len(ReplayCalls(r))) = ReplayCalls(r)
                    /\ queues'[r].completedActions \o queues'[r].actions = Pool[r].inner]_vars

\* a tick in which an unstopped RepeatForever replayed its inner list
C9_Witness ==
    /\ op.name = "update"
    /\ \E r \in DOMAIN acts :
          /\ Kind(r) = "RepeatForever"
          /\ r \notin stopCalled
          /\ ~IsComplete(Heap, r)
          /\ <<"reset", Pool[r].inner[1]>> \in RangeOf(trace)
          /\ Pool[r].inner[1] \in updated

\* C10 (stated as claimed): a call of RepeatForever.stop() marks it complete,
\* empties its inner queue and leaves the target's driven velocity zero; every
\* later update of it changes neither the target nor its inner queue, and it
\* stays complete whatever is called afterwards (reset does not revive it).
C10_RepeatForeverStopZeroesVelocity ==
    /\ [][\A r \in Called(trace', "stop") :
             Kind(r) = "RepeatForever" =>
                /\ IsComplete([Heap EXCEPT !.acts = acts'], r)
                /\ queues'[r].actions = <<>>
                /\ queues'[r].completedActions = <<>>
                /\ actor'.vel = VectorZero]_vars
    /\ [][\A r \in DOMAIN acts :
             (Kind(r) = "RepeatForever" /\ acts[r].stopped) =>
                /\ acts'[r].stopped
                /\ queues'[r] = queues[r]
                /\ op'.name = "update" => actor' = Integrate(actor, op'.arg)]_vars

\* C11: constructing a MoveBy with speed <= 0 throws, so that no MoveBy with
\* such a speed is ever queued and the call changes nothing of the target, the
\* actions or the queues; constructing a MoveBy with speed > 0 never throws and
\* yields the action that is queued.
C11_MoveByRejectsNonPositiveSpeed ==
    /\ [](\A a \in Ids :
            (Kind(a) = "MoveBy" /\ a \in RangeOf(added) \cup RangeOf(Pending)) => Pool[a].speed > 0)
    /\ [][/\ (op'.name = "throw") =>
                (/\ (Kind(op'.arg) = "MoveBy" => Pool[op'.arg].speed <= 0)
                 /\ actor' = actor
                 /\ acts' = acts
                 /\ queues' = queues
                 /\ added' = added)
          /\ (op'.name = "add" /\ Kind(op'.arg) = "MoveBy") =>
                (/\ Pool[op'.arg].speed > 0
                 /\ acts'[op'.arg] = Pool[op'.arg]
                 /\ queues'[ActorQueue].actions = Append(Pending, op'.arg))]_vars

\* a MoveBy constructor call that threw after a MoveBy with positive speed was queued
C11_Witness ==
    /\ op.name = "throw"
    /\ Kind(op.arg) = "MoveBy"
    /\ \E a \in RangeOf(Pending) : Kind(a) = "MoveBy" /\ Pool[a].speed > 0

\* the actions that a step's queue updates retired: updated in the step and
\* now the last entry of a completed list
RetiredInStep(tr, qs) ==
    {a \in Called(tr, "update") :
        \E q \in DOMAIN qs :
            /\ qs[q].completedActions # <<>>
            /\ qs[q].completedActions[Len(qs[q].completedActions)] = a
            /\ a \notin RangeOf(qs[q].actions)}

\* C12: an update of a MoveTo or MoveBy that finds the target at least the total
\* distance away from the captured start puts the target exactly on the end
\* point (MoveTo: the destination; MoveBy: captured start + offset) with zero
\* velocity, so a tick in which a queue retires an unstopped MoveTo or MoveBy
\* leaves the target exactly on the end point with zero velocity, whatever the
\* tick sizes and the overshoot before it.
C12_MoveSnapsToEnd ==
    /\ [](\A a \in Held : \A delta \in Deltas :
            Kind(a) \in {"MoveTo", "MoveBy"} =>
               LET S == ActionUpdate(Heap, a, delta)
                   endPoint == IF Kind(a) = "MoveTo" THEN Pool[a].end
                               ELSE Add(S.acts[a].start, Pool[a].offset)
               IN  Distance(S.actor.pos, S.acts[a].start) >= S.acts[a].distance =>
                      (S.actor.pos = endPoint /\ S.actor.vel = VectorZero))
    /\ [][op'.name = "update" =>
             \A a \in RetiredInStep(trace', queues') :
                (Kind(a) \in {"MoveTo", "MoveBy"} /\ ~acts'[a].stopped) =>
                   /\ actor'.pos = (IF Kind(a) = "MoveTo" THEN Pool[a].end
                                     ELSE Add(acts'[a].start, Pool[a].offset))
                   /\ actor'.vel = VectorZero]_vars

\* a tick, the fourth of the run or later, that retired an unstopped MoveTo or
\* MoveBy with the target on its end point
C12_Witness ==
    /\ op.name = "update"
    /\ \E a \in RetiredInStep(trace, queues) :
          /\ Kind(a) \in {"MoveTo", "MoveBy"}
          /\ ~acts[a].stopped
          /\ actor.pos = acts[a].end
          /\ ticks >= 4

\* the heap after the step
HeapAfter == [actor |-> actor', other |-> other', acts |-> acts', queues |-> queues', trace |-> <<>>]

\* the operations that apply updates
UpdateOps == {"update", "updateAction", "updateOther"}

\* C13 (stated as claimed): for every action kind other than Die, a call of
\* stop() leaves isComplete true, and no update applied afterwards, to the
\* action or to a queue or composite that holds it, makes isComplete false again.
C13_StoppedIsSticky ==
    /\ [][\A a \in Called(trace', "stop") : Kind(a) # "Die" => IsComplete(HeapAfter, a)]_vars
    /\ [][op'.name \in UpdateOps =>
             \A a \in stopCalled :
                (Kind(a) # "Die" /\ IsComplete(Heap, a)) => IsComplete(HeapAfter, a)]_vars

\* the kinds whose stop() zeroes a velocity of the target
DrivingKinds ==
    {"MoveTo", "MoveBy", "EaseTo", "Follow", "Meet", "RotateTo", "RotateBy", "ScaleTo", "ScaleBy"}

\* C14 (stated as claimed): an update of a MoveTo, MoveBy, EaseTo, Follow, Meet,
\* RotateTo, RotateBy, ScaleTo or ScaleBy on which stop() was called before,
\* whether or not it had been updated before the stop, changes nothing of the
\* target: a direct update leaves the target as it was, and a tick whose queue
\* update reaches such an action only integrates the velocities the target had.
C14_UpdateAfterStopIsNoOp ==
    [][\A a \in Called(trace', "update") :
          (Kind(a) \in DrivingKinds /\ a \in stopCalled /\ acts[a].stopped) =>
             /\ op'.name = "updateAction" => actor' = actor
             /\ op'.name = "update" => actor' = Integrate(actor, op'.arg)]_vars

\* the fields of an actor that actions drive
Driven(A) == <<A.pos, A.vel, A.rotation, A.rx, A.scale, A.sx, A.sy, A.opacity, A.visible>>

\* C15 (stated as claimed): an update of an action that was updated before, was
\* never stopped and reports complete leaves every driven field of the target
\* as it was, and does not invoke the method of a CallMethod again.
C15_IdempotentCompletion ==
    [][(/\ op'.name = "updateAction"
        /\ op'.arg \in updated
        /\ op'.arg \notin stopCalled
        /\ IsComplete(Heap, op'.arg)) =>
            /\ Driven(actor') = Driven(actor)
            /\ (Kind(op'.arg) = "CallMethod" =>
                   acts'[op'.arg].invoked = acts[op'.arg].invoked)]_vars

\* C16: a Follow on which stop() was never called reports incomplete, whatever
\* the updates so far and wherever the two actors are, so a tick of the actor
\* while an unstopped Follow heads its queue leaves the queue's pending list as
\* it was and updates no action behind the Follow.
C16_FollowNeverCompletes ==
    /\ [](\A a \in Held : (Kind(a) = "Follow" /\ a \notin stopCalled) => ~IsComplete(Heap, a))
    /\ [][(/\ op'.name = "update"
           /\ Pending # <<>>
           /\ Kind(Head(Pending)) = "Follow"
           /\ Head(Pending) \notin stopCalled) =>
              (/\ Pending' = Pending
               /\ Called(trace', "update") \cap RangeOf(Tail(Pending)) = {})]_vars

\* the follower has caught up with the followed actor, the unstopped Follow was
\* updated where the two coincide and still heads the queue, a Delay behind it
C16_Witness ==
    /\ op.name = "update"
    /\ Len(Pending) = 2
    /\ Kind(Pending[1]) = "Follow"
    /\ Kind(Pending[2]) = "Delay"
    /\ Pending[1] \notin stopCalled
    /\ acts[Pending[1]].started
    /\ acts[Pending[1]].distanceBetween = 0
    /\ actor.pos = other.pos
    /\ actor.pos # VectorZero

\* the speed an update of Follow a uses: the followed actor's speed, or the
\* speed of the update before when the followed actor stands still
FollowSpeed(a) == IF Size(other.vel) # 0 THEN Size(other.vel) ELSE acts[a].speed

\* the velocity the rule gives the follower on an update of Follow a
FollowVelocity(a) ==
    IF Distance(actor.pos, other.pos) >= acts[a].maximumDistance
    THEN Scale(Normalize(Sub(other.pos, actor.pos)), FollowSpeed(a))
    ELSE VectorZero

\* C17: a Follow is constructed with the maximum distance followDistance, or the
\* separation of the two actors at construction when followDistance is omitted;
\* every update of an unstopped Follow leaves the follower with the velocity
\* (unit direction towards the followed actor) x speed when the two are at least
\* the maximum distance apart and (0,0) otherwise, and keeps as speed the followed
\* actor's speed if that is not zero and the speed of the update before otherwise.
C17_FollowVelocity ==
    /\ [][op'.name = "add" /\ Kind(op'.arg) = "Follow" =>
             acts'[op'.arg].maximumDistance =
                (IF Pool[op'.arg].followDistance # NoArg
                 THEN px(Pool[op'.arg].followDistance)
                 ELSE Distance(actor.pos, other.pos))]_vars
    /\ [][\A a \in Called(trace', "update") :
             (Kind(a) = "Follow" /\ ~acts[a].stopped) =>
                /\ actor'.vel = FollowVelocity(a)
                /\ acts'[a].speed = FollowSpeed(a)]_vars

\* an update of an unstopped Follow while the followed actor stands still, at
\* least the maximum distance away: the follower moves on at the speed kept
C17_Witness ==
    /\ op.name = "update"
    /\ \E a \in Called(trace, "update") :
          /\ Kind(a) = "Follow"
          /\ ~acts[a].stopped
          /\ other.vel = VectorZero
          /\ actor.vel = vec(10, 0)
          /\ Pool[a].followDistance = NoArg
          /\ acts[a].maximumDistance = px(10)

\* the speed an update of Meet a uses: the speed given to the constructor, else
\* the tracked actor's speed, else the speed of the update before
MeetSpeed(a) ==
    IF Size(other.vel) # 0 /\ Pool[a].speedArg = NoArg THEN Size(other.vel) ELSE acts[a].speed

\* C18: an unstopped Meet that was never updated is incomplete; an update of an
\* unstopped Meet that finds the two actors at most 1 px apart leaves the Meet
\* complete and the follower exactly on the tracked actor's position with zero
\* velocity; one that finds them further apart leaves the Meet incomplete and
\* the follower's velocity pointing at the tracked actor, however far it is;
\* and nothing but an update or a stop changes whether the Meet is complete.
C18_MeetCompletesWithinOne ==
    /\ [](\A a \in Held :
            (Kind(a) = "Meet" /\ ~acts[a].stopped /\ a \notin updated) => ~IsComplete(Heap, a))
    /\ [][\A a \in Called(trace', "update") :
             (Kind(a) = "Meet" /\ ~acts[a].stopped) =>
                IF Distance(actor.pos, other.pos) <= px(1)
                THEN /\ IsComplete(HeapAfter, a)
                     /\ actor'.pos = other.pos
                     /\ actor'.vel = VectorZero
                ELSE /\ ~IsComplete(HeapAfter, a)
                     /\ actor'.vel = Scale(Normalize(Sub(other.pos, actor.pos)), MeetSpeed(a))]_vars
    /\ [][\A a \in Held :
             (Kind(a) = "Meet" /\ a \notin Called(trace', "update") /\ ~acts'[a].stopped) =>
                (IsComplete(HeapAfter, a) <=> IsComplete(Heap, a))]_vars

\* a tick in which an unstopped Meet found the follower within 1 px of the
\* tracked actor, 20 px from where it started, and was retired
C18_Witness ==
    /\ op.name = "update"
    /\ \E a \in RetiredInStep(trace, queues) :
          /\ Kind(a) = "Meet"
          /\ ~acts[a].stopped
          /\ actor.pos = other.pos
          /\ actor.pos = vec(px(20), 0)
          /\ actor.vel = VectorZero

\* C19: the tracked actor changes only in its own update: adding (constructing),
\* updating, stopping, resetting or clearing a Follow or Meet, in a tick of the
\* follower or directly, before or after the tracked actor's update, leaves the
\* tracked actor's position and velocity as they were.
C19_TrackedActorOnlyRead ==
    [][op'.name # "updateOther" => (other'.pos = other.pos /\ other'.vel = other.vel)]_vars

\* a tick of the follower in which a Meet caught the tracked actor, which had
\* been updated before and is still moving
C19_Witness ==
    /\ op.name = "update"
    /\ \E a \in RetiredInStep(trace, queues) : Kind(a) = "Meet" /\ ~acts[a].stopped
    /\ actor.pos = other.pos
    /\ other.vel = vec(10, 0)

\* the angle travelled from `from` to `to` in the positive direction, in [0, TwoPI)
Forward(from, to) == (to - from) % TwoPI

\* the shorter and the longer of the two ways round from `from` to `to`
ShortWay(from, to) ==
    IF Forward(from, to) <= Forward(to, from) THEN Forward(from, to) ELSE Forward(to, from)

LongWay(from, to) == TwoPI - ShortWay(from, to)

\* travelling `distance` from `from` in `direction` ends on `to`
Arrives(from, to, direction, distance) ==
    CanonicalizeAngle(from + direction * distance) = CanonicalizeAngle(to)

\* C20 (stated as claimed): the first update of a RotateTo, and the first after
\* a reset, with the target at rotation start, selects a path that ends on the
\* end angle: for ShortestPath the short distance; for LongestPath the long
\* distance, against the direction of the short way; for Clockwise direction +1
\* and for CounterClockwise direction -1, with the one of the short and long
\* distances that ends on the end angle in that direction.  From 0 to a quarter
\* turn, ShortestPath and Clockwise select (quarter turn, +1), LongestPath and
\* CounterClockwise (three quarters, -1).
C20_RotateToPathSelection ==
    [][\A a \in Called(trace', "update") :
          (Kind(a) = "RotateTo" /\ ~acts[a].started) =>
             LET start == actor.rotation
                 end == Pool[a].end
                 mode == Pool[a].rotationType
                 direction == acts'[a].direction
                 distance == acts'[a].distance
             IN  /\ direction \in {-1, 1}
                 /\ distance \in {ShortWay(start, end), LongWay(start, end)}
                 /\ Arrives(start, end, direction, distance)
                 /\ (mode = "ShortestPath" => distance = ShortWay(start, end))
                 /\ (mode = "LongestPath" =>
                        /\ distance = LongWay(start, end)
                        /\ (Forward(start, end) < Forward(end, start) => direction = -1)
                        /\ (Forward(end, start) < Forward(start, end) => direction = 1))
                 /\ (mode = "Clockwise" => direction = 1)
                 /\ (mode = "CounterClockwise" => direction = -1)
                 /\ ((start = 0 /\ end = 2000 /\ mode \in {"ShortestPath", "Clockwise"}) =>
                        (distance = 2000 /\ direction = 1))
                 /\ ((start = 0 /\ end = 2000 /\ mode \in {"LongestPath", "CounterClockwise"}) =>
                        (distance = 6000 /\ direction = -1))]_vars

\* the RotateTo that RotateBy a is claimed to behave as, once its first update
\* finds the target at the rotation `start`
AsRotateTo(a, start) == NewRotateTo(start + Pool[a].offset, Pool[a].speed, Pool[a].rotationType)

\* C21 (stated as claimed): the first update of a RotateBy, with the target at
\* rotation start, selects the distance and the direction that the first update
\* of RotateTo(start + offset, speed, mode) selects there, and leaves the target
\* with the same rotation and angular velocity and the action as complete or
\* incomplete as that RotateTo would be.
C21_RotateByAsRotateTo ==
    [][\A a \in Called(trace', "update") :
          (Kind(a) = "RotateBy" /\ ~acts[a].started /\ ~acts[a].stopped
           /\ op'.name \in {"update", "updateAction"}) =>
             LET To == RotateToUpdate([Heap EXCEPT !.acts[a] = AsRotateTo(a, actor.rotation)],
                                      a, IF op'.name = "update" THEN op'.arg ELSE 1)
                 after == IF op'.name = "update" THEN Integrate(To.actor, op'.arg) ELSE To.actor
             IN  /\ acts'[a].distance = To.acts[a].distance
                 /\ acts'[a].direction = To.acts[a].direction
                 /\ actor'.rx = after.rx
                 /\ actor'.rotation = after.rotation
                 /\ IsComplete(HeapAfter, a) = RotateToIsComplete(To, a)]_vars

\* the un-wrapped angular distance a rotate action has accumulated
Travelled(a) == Abs(a.currentNonCannonAngle - a.start)

\* C22 (stated as claimed): an update of a RotateTo or RotateBy that does not
\* recapture the start never lowers the accumulated un-wrapped distance; an
\* update that leaves it at or above the selected distance leaves the rotation
\* on the end angle, the angular velocity 0 and the action complete; and an
\* unstopped one that leaves it below the selected distance leaves the action
\* incomplete.
C22_RotateCompletesAtDistance ==
    [][\A a \in Called(trace', "update") :
          (Kind(a) \in {"RotateTo", "RotateBy"} /\ op'.name \in {"update", "updateAction"}) =>
             /\ (acts[a].started => Travelled(acts'[a]) >= Travelled(acts[a]))
             /\ (Travelled(acts'[a]) >= acts'[a].distance =>
                    /\ actor'.rotation = CanonicalizeAngle(acts'[a].end)
                    /\ actor'.rx = 0
                    /\ IsComplete(HeapAfter, a))
             /\ ((~acts[a].stopped /\ Travelled(acts'[a]) < acts'[a].distance) =>
                    ~IsComplete(HeapAfter, a))]_vars

\* C23 (stated as claimed): the path state a RotateTo or RotateBy captures on
\* its first update, and on the first after a reset, has shortDistance +
\* longDistance = TwoPI and shortDistance <= longDistance, and the distance it
\* selects is not negative.
C23_RotatePathState ==
    [][\A a \in Called(trace', "update") :
          (Kind(a) \in {"RotateTo", "RotateBy"} /\ ~acts[a].started) =>
             /\ acts'[a].shortDistance + acts'[a].longDistance = TwoPI
             /\ acts'[a].shortDistance <= acts'[a].longDistance
             /\ acts'[a].distance >= 0]_vars

\* both axes of ScaleTo a have moved the scale at least as far from the captured
\* start as the end scale is
BothAxesDone(a) ==
    /\ Abs(actor.scale.x - acts[a].startX) >= Abs(acts[a].endX - acts[a].startX)
    /\ Abs(actor.scale.y - acts[a].startY) >= Abs(acts[a].endY - acts[a].startY)

\* C24 (stated as claimed): an unstopped ScaleTo that has been updated reports
\* complete exactly when the X scale is at least |endX - startX| and the Y scale
\* at least |endY - startY| from the captured start.
C24_ScaleToCompletesWhenBothAxes ==
    \A a \in DOMAIN acts :
        (Kind(a) = "ScaleTo" /\ acts[a].started /\ ~acts[a].stopped) =>
            (IsComplete(Heap, a) <=> BothAxesDone(a))

\* the delta an operation passes to the updates it applies
DeltaOf(o) == IF o.name \in {"update", "updateOther"} THEN o.arg ELSE 1

\* the deltas passed to update() of action a since its construction or last
\* reset, summed over the calls of a step in call order, from the sum e before it
RECURSIVE SumOfDeltas(_, _, _, _)
SumOfDeltas(tr, a, e, delta) ==
    IF tr = <<>> THEN e
    ELSE SumOfDeltas(Tail(tr), a,
                     IF Head(tr) = <<"reset", a>> THEN 0
                     ELSE IF Head(tr) = <<"update", a>> THEN e + delta
                     ELSE e,
                     delta)

\* the kinds of the actions whose methods a step called
KindsCalled(tr) == {Kind(tr[i][2]) : i \in {j \in 1..Len(tr) : tr[j][2] # Undefined}}

\* C25: a step that calls update, stop or reset of Delays only (directly or
\* through the composites that hold them) leaves every driven field of the
\* target as it was, apart from the Euler step of a tick; a Delay reports
\* complete exactly when the deltas passed to its update since construction or
\* the last reset sum to at least the delay, or stop() was called on it; and a
\* queue update that updates a Delay which then reports complete retires it
\* in that same update.
C25_DelayCountsElapsedTime ==
    [][/\ (trace' # <<>> /\ KindsCalled(trace') \subseteq {"Delay", "Repeat", "RepeatForever"}) =>
              Driven(actor') = Driven(IF op'.name = "update" THEN Integrate(actor, op'.arg)
                                      ELSE actor)
       /\ \A a \in DOMAIN acts :
             Kind(a) = "Delay" =>
                /\ acts'[a].elapsedTime =
                       SumOfDeltas(trace', a, acts[a].elapsedTime, DeltaOf(op'))
                /\ IsComplete(HeapAfter, a) <=>
                       (a \in stopCalled' \/ acts'[a].elapsedTime >= Pool[a].delay)
                /\ (/\ op'.name = "update"
                    /\ a \in Called(trace', "update")
                    /\ IsComplete(HeapAfter, a)) =>
                       a \in RetiredInStep(trace', queues')]_vars

\* a tick retired a Delay of one second, never stopped, on the very update
\* that brought the sum of its deltas to the delay, the target not having moved
C25_Witness ==
    /\ op.name = "update"
    /\ \E a \in RetiredInStep(trace, queues) :
          /\ Kind(a) = "Delay"
          /\ a \notin stopCalled
          /\ acts[a].elapsedTime = 1000
          /\ Pool[a].delay = 1000
          /\ op.arg = 1000
    /\ actor.pos = VectorZero

\* C26: a step in which a Blink comes to report complete, or calls update() or
\* stop() of a Blink that reports complete after it, whether the total time
\* reached the duration or stop() was called directly or by clearActions,
\* leaves the target visible, whatever the tick sizes and the phase of the blink.
C26_BlinkNeverFinishesInvisible ==
    [][\A a \in DOMAIN acts :
          (/\ Kind(a) = "Blink"
           /\ IsComplete(HeapAfter, a)
           /\ \/ ~IsComplete(Heap, a)
              \/ a \in Called(trace', "update") \cup Called(trace', "stop")) =>
              actor'.visible]_vars

\* the hidden phase of a Blink: it has hidden the target and has not shown it since
Hiding(a) == acts[a].totalTime >= acts[a].timeVisible /\ acts[a].elapsedTime < acts[a].totalTime

\* clearActions stopped a Blink in its hidden phase, before its duration was
\* over, and the target is visible
C26_Witness ==
    /\ op.name = "clearActions"
    /\ \E a \in Called(trace, "stop") :
          /\ Kind(a) = "Blink"
          /\ Hiding(a)
          /\ acts[a].elapsedTime < acts[a].timeNotVisible
          /\ acts[a].totalTime < acts[a].duration
          /\ acts[a].stopped
    /\ actor.visible

\* the time of the current phase of Blink a after an update with delta
PhaseTime(a, delta) == acts[a].elapsedTime + delta

\* what the target's phase asks of an update of Blink a with delta: the phase
\* ends when its time reaches timeVisible (target visible) or timeNotVisible
\* (target hidden), boundary included
PhaseEnds(a, delta) ==
    PhaseTime(a, delta) >= (IF actor.visible THEN acts[a].timeVisible ELSE acts[a].timeNotVisible)

\* C27: an update of a Blink ends the target's phase exactly when the time
\* accumulated in the phase reaches timeVisible (visible phase) or
\* timeNotVisible (hidden phase), the boundary included: the target is then in
\* the other phase with no time accumulated, and otherwise in the same phase
\* with the delta added; only the update after which the Blink reports complete
\* leaves the target visible whatever the phase (C26).  Blink(200,200,1) on an
\* initially visible target, no other call made, has the target hidden when
\* its total time is 200 and visible, complete and retired when it is 400.
C27_BlinkTogglesAtPhaseEnd ==
    /\ [][\A a \in Called(trace', "update") :
             (Kind(a) = "Blink" /\ acts[a].timeNotVisible > 0) =>
                LET delta == DeltaOf(op')
                IN  /\ acts'[a].elapsedTime = IF PhaseEnds(a, delta) THEN 0 ELSE PhaseTime(a, delta)
                    /\ ~IsComplete(HeapAfter, a) =>
                          (actor'.visible # actor.visible <=> PhaseEnds(a, delta))
                    /\ (~actor.visible /\ PhaseEnds(a, delta)) => actor'.visible]_vars
    /\ [](\A a \in DOMAIN acts :
            (/\ Kind(a) = "Blink"
             /\ Pool[a].timeVisible = 200 /\ Pool[a].timeNotVisible = 200 /\ Pool[a].duration = 400
             /\ calls = 0) =>
                /\ acts[a].totalTime = 200 => ~actor.visible
                /\ acts[a].totalTime = 400 =>
                      (actor.visible /\ IsComplete(Heap, a) /\ a \in retired))

\* two ticks of 200 ms have run Blink(200,200,1) to its end: the second one
\* showed the target again and the queue retired the Blink
C27_Witness ==
    /\ op = [name |-> "update", arg |-> 200]
    /\ ticks = 2
    /\ calls = 0
    /\ actor.visible
    /\ \E a \in RetiredInStep(trace, queues) :
          /\ Kind(a) = "Blink"
          /\ Pool[a].timeVisible = 200 /\ Pool[a].duration = 400
          /\ acts[a].totalTime = 400
          /\ acts[a].elapsedTime = 0

\* the Fades of the runs that start with the target's opacity at 0
FadeIns == {a \in DOMAIN acts : Kind(a) = "Fade" /\ avail \in FadeInScenarios}

\* C28: Fade(1, 200) on a target of opacity 0, updated by ticks and by no other
\* call, has raised the opacity by 0.1 per 20 ms tick, so that the tenth tick
\* (200 ms, no time remaining) leaves the opacity exactly 1, the Fade complete
\* and retired, and every later update of any kind leaves the opacity exactly
\* 1.  In general an update of an unstopped Fade leaves it complete exactly
\* when it leaves the opacity within 0.05 of the target, and then the opacity
\* is exactly the target.
C28_FadeReachesTarget ==
    /\ [](\A a \in FadeIns :
            (/\ Pool[a].endOpacity = 1000 /\ Pool[a].speed = 200
             /\ calls = 0 /\ acts[a].started /\ acts[a].speed >= 0) =>
                /\ actor.opacity = 5 * (200 - acts[a].speed)
                /\ acts[a].speed = 0 =>
                      (actor.opacity = 1000 /\ IsComplete(Heap, a) /\ a \in retired))
    /\ [][\A a \in FadeIns :
             (a \in retired /\ ~acts[a].stopped /\ actor.opacity = Pool[a].endOpacity
              /\ op'.name \in UpdateOps) =>
                 actor'.opacity = Pool[a].endOpacity]_vars
    /\ [][\A a \in Called(trace', "update") :
             (Kind(a) = "Fade" /\ ~acts'[a].stopped) =>
                /\ IsComplete(HeapAfter, a) <=> Abs(actor'.opacity - Pool[a].endOpacity) < 50
                /\ IsComplete(HeapAfter, a) => actor'.opacity = Pool[a].endOpacity]_vars

\* the tenth tick of 20 ms retired Fade(1, 200), the opacity having gone from
\* 0 to exactly 1
C28_Witness ==
    /\ op = [name |-> "update", arg |-> 20]
    /\ ticks = 10
    /\ calls = 0
    /\ actor.opacity = 1000
    /\ \E a \in RetiredInStep(trace, queues) \cap FadeIns :
          /\ Pool[a].endOpacity = 1000 /\ Pool[a].speed = 200
          /\ acts[a].speed = 0

\* the queues whose update a tick reaches with action a at the head: the
\* actor's queue, and the queue of an unstopped composite that is updated with
\* a at the head of what it has pending
HeadOf(a) ==
    {q \in DOMAIN queues :
        /\ queues[q].actions # <<>>
        /\ queues[q].actions[1] = a
        /\ \/ q = ActorQueue
           \/ /\ q \in Composites
              /\ ~acts[q].stopped
              /\ Pending # <<>> /\ Pending[1] = q}

\* C29: a tick that finds a CallMethod at the head of a queue it updates
\* invokes the callback; a tick invokes the callback of a CallMethod at most
\* once, and only by updating it, and the queue that updated it retires it in
\* that same update; no step other than an update of the CallMethod invokes
\* the callback; and a tick updates a CallMethod that a queue had retired
\* before only after a reset() of the CallMethod in that same tick, the replay
\* invoking it once.
C29_CallMethodOncePerActivation ==
    [][\A a \in DOMAIN acts :
          Kind(a) = "CallMethod" =>
             /\ (op'.name = "update" /\ HeadOf(a) # {}) => a \in Called(trace', "update")
             /\ acts'[a].invoked = acts[a].invoked
                    + Cardinality({i \in CallsOf(trace', "update") : trace'[i][2] = a})
             /\ (op'.name = "update" /\ a \in Called(trace', "update")) =>
                   /\ acts'[a].invoked = acts[a].invoked + 1
                   /\ a \in RetiredInStep(trace', queues')
                   /\ \A q \in DOMAIN queues :
                         a \in RangeOf(queues[q].completedActions) =>
                            a \in Called(trace', "reset")]_vars

\* a tick has invoked, for the second time, the callback of the CallMethod that
\* a RepeatForever replays, and the RepeatForever's queue has retired it again
C29_Witness ==
    /\ op.name = "update"
    /\ \E a \in RetiredInStep(trace, queues) :
          /\ Kind(a) = "CallMethod"
          /\ acts[a].invoked = 2
          /\ a \in Called(trace, "update")
          /\ \E r \in DOMAIN queues : r \in Composites /\ a \in RangeOf(queues[r].completedActions)

\* a Die has been updated and the actor's queue holds no action since
DiedAndEmpty ==
    /\ \E a \in updated : Kind(a) = "Die"
    /\ RangeOf(Pending) \cap Ids = {}
    /\ RangeOf(Completed) \cap Ids = {}

\* C30 (stated as claimed): a tick that updates a Die at the head of the
\* actor's queue requests the kill and leaves the Die complete and the queue
\* empty: hasNext() is false and getActions() is the empty list, with no
\* undefined entry; while the queue holds no action, a later reset() or
\* update() of it calls nothing, raises no error and leaves it empty; and
\* stop() and reset() of a Die change nothing.
C30_DieEmptiesQueue ==
    /\ [][\A a \in Called(trace', "update") :
             (Kind(a) = "Die" /\ op'.name = "update") =>
                /\ actor'.killed
                /\ IsComplete(HeapAfter, a)
                /\ ~QueueHasNext(HeapAfter, ActorQueue)
                /\ QueueGetActions(HeapAfter, ActorQueue) = <<>>]_vars
    /\ [][(DiedAndEmpty /\ op'.name \in {"reset", "update"}) =>
             /\ trace' = <<>>
             /\ QueueGetActions(HeapAfter, ActorQueue) = <<>>]_vars
    /\ [][\A a \in Called(trace', "stop") \cup Called(trace', "reset") :
             Kind(a) = "Die" => (acts'[a] = acts[a] /\ (op'.name = "stop" => actor' = actor))]_vars

\* C31 (stated as claimed): a tick in which a queue retires an unstopped
\* EaseTo, which it does when the EaseTo reports complete right after its
\* update, leaves the target exactly on the end point with velocity (0,0),
\* whatever the easing function.
C31_EaseToSnapsOnCompletion ==
    [][op'.name = "update" =>
          \A a \in RetiredInStep(trace', queues') :
             (Kind(a) = "EaseTo" /\ ~acts'[a].stopped) =>
                (actor'.pos = Pool[a].lerpEnd /\ actor'.vel = VectorZero)]_vars

\* a move that has nowhere to go: a MoveTo whose destination is where the
\* target is, a MoveBy whose offset is (0,0)
Degenerate(a) ==
    \/ Kind(a) = "MoveTo" /\ Pool[a].end = actor.pos
    \/ Kind(a) = "MoveBy" /\ Pool[a].offset = VectorZero

HeadUpdated(h, delta) ==
    ActionUpdate([Heap EXCEPT !.queues[ActorQueue].currentAction = h], h, delta)

\* C33 (stated as claimed): the queue update of a tick, the pending list not
\* being empty, moves the head from the front of the pending list to the end
\* of the completed list if the head reports complete right after its update,
\* and leaves both lists as they were if it does not; with an empty pending
\* list it calls nothing and changes neither the queue nor, the Euler step of
\* the tick apart, the target.
C33_UpdateRetiresCompleteHead ==
    [][op'.name = "update" =>
          IF Pending = <<>>
          THEN /\ trace' = <<>>
               /\ queues'[ActorQueue] = queues[ActorQueue]
               /\ actor' = Integrate(actor, op'.arg)
          ELSE Pending[1] # Undefined =>
                  IF IsComplete(HeadUpdated(Pending[1], op'.arg), Pending[1])
                  THEN /\ queues'[ActorQueue].actions = Tail(Pending)
                       /\ queues'[ActorQueue].completedActions = Append(Completed, Pending[1])
                  ELSE /\ queues'[ActorQueue].actions = Pending
                       /\ queues'[ActorQueue].completedActions = Completed]_vars

\* the remaining-cycle counter of Repeat r before its update in a step: the
\* count given at construction when the step reset the Repeat first
CounterBefore(r, tr) == IF r \in Called(tr, "reset") THEN Pool[r].repeat ELSE acts[r].repeat

\* C34 (stated as claimed): the counter of a Repeat starts at the count N it
\* was constructed with; an update of the Repeat that starts with nothing
\* pending in the inner queue takes one off the counter, resets the inner
\* queue and updates it once, every other update leaves the counter as it
\* was; the Repeat reports complete exactly when it was stopped or the counter
\* is <= 0; and the update that brings the counter to 0 updates no inner
\* action, the N passes being over, so that no inner action is updated as
\* part of an (N+1)-th pass.
C34_RepeatCountsCycles ==
    /\ [](\A r \in DOMAIN acts :
            Kind(r) = "Repeat" =>
               /\ r \notin updated => acts[r].repeat = Pool[r].repeat
               /\ IsComplete(Heap, r) <=> (acts[r].stopped \/ acts[r].repeat <= 0))
    /\ [][\A r \in Called(trace', "update") :
             Kind(r) = "Repeat" =>
                IF QueueHasNext(Heap, r)
                THEN acts'[r].repeat = CounterBefore(r, trace')
                ELSE /\ acts'[r].repeat = CounterBefore(r, trace') - 1
                     /\ \A i \in RangeOf(Pool[r].inner) : i \in Called(trace', "reset")
                     /\ (acts'[r].repeat <= 0 =>
                            \A i \in RangeOf(Pool[r].inner) : i \notin Called(trace', "update"))]_vars

\* the inner actions of composite r
Inner(r) == RangeOf(Pool[r].inner)

\* C35: reset() of a Repeat puts the remaining-cycle counter back to the count
\* given at construction and, unless the same step goes on to update the
\* Repeat, leaves the inner queue's pending and completed lists and every inner
\* action exactly as they were; reset() is called on an inner action of a
\* Repeat only by an update of the Repeat that finds nothing pending in the
\* inner queue.
C35_RepeatResetRestoresCounterOnly ==
    [][\A r \in DOMAIN acts :
          Kind(r) = "Repeat" =>
             /\ (r \in Called(trace', "reset") /\ r \notin Called(trace', "update")) =>
                   /\ acts'[r] = [acts[r] EXCEPT !.repeat = Pool[r].repeat]
                   /\ queues'[r] = queues[r]
                   /\ \A i \in Inner(r) : acts'[i] = acts[i]
             /\ (Inner(r) \cap Called(trace', "reset") # {}) =>
                   (r \in Called(trace', "update") /\ ~QueueHasNext(Heap, r))]_vars

\* actionQueue.reset() has reset a Repeat that had run out of cycles and been
\* retired, never stopped: its counter is back at the constructed count while
\* its inner queue still has actions pending from before the reset
C35_Witness ==
    /\ op.name = "reset"
    /\ \E r \in Called(trace, "reset") :
          /\ Kind(r) = "Repeat"
          /\ r \in retired
          /\ r \notin stopCalled
          /\ acts[r].repeat = Pool[r].repeat
          /\ queues[r].actions # <<>>
          /\ \E i \in Inner(r) : acts[i].started

\* the target is at least the move's distance away from the start it captured
Reached(a) == acts[a].started /\ Distance(actor.pos, acts[a].start) >= acts[a].distance

\* C36: in a tick whose queue update finds an unstopped MoveTo or MoveBy at the
\* head, an update that does not find the target at the end, though it sets the
\* velocity that carries the target to or past the end in the Euler step that
\* follows, does not retire the move; the update of a tick that starts with the
\* target at or past the end, whatever its duration, puts the target on the end
\* point with zero velocity and retires the move, the Euler step moving the
\* target no further; and the tick that retires the move does not update the
\* action behind it.
C36_MoveCompletionDetectedNextTick ==
    [][(/\ op'.name = "update"
        /\ Pending # <<>> /\ Pending[1] # Undefined
        /\ Kind(Pending[1]) \in {"MoveTo", "MoveBy"}
        /\ ~acts[Pending[1]].stopped) =>
           LET h == Pending[1]
           IN  /\ ~IsComplete(HeadUpdated(h, op'.arg), h) =>
                     /\ queues'[ActorQueue].actions = Pending
                     /\ h \notin RetiredInStep(trace', queues')
               /\ Reached(h) =>
                     /\ h \in RetiredInStep(trace', queues')
                     /\ actor'.pos = acts'[h].end
                     /\ actor'.vel = VectorZero
               /\ h \in RetiredInStep(trace', queues') =>
                     \A b \in RangeOf(Tail(Pending)) : b \notin Called(trace', "update")]_vars

\* a tick of 1 ms has retired a MoveTo that the tick before it had carried to
\* its end point, 20 px from its start; the target is on the end point with zero
\* velocity and the action behind the MoveTo has not been updated yet
C36_Witness ==
    /\ op = [name |-> "update", arg |-> 1]
    /\ actor.vel = VectorZero
    /\ Pending # <<>> /\ Pending[1] \notin updated
    /\ \E a \in RetiredInStep(trace, queues) :
          /\ Kind(a) = "MoveTo"
          /\ a \notin stopCalled
          /\ acts[a].distance = px(20)
          /\ actor.pos = acts[a].end

\* the action has been retired by the queue that runs it
CompletedOnce(a) == \E q \in DOMAIN queues : a \in RangeOf(queues[q].completedActions)

\* C37 (stated as claimed): a Fade that is started, for the first time or again
\* after a reset, by an update whose delta is the whole time the Fade was
\* given, brings the opacity to its target in that update and reports
\* complete; so a RepeatForever over [Fade(1, 200), Fade(0, 200)] that is at
\* the head of the queue with the opacity at 0 or 1, driven by ticks and no
\* other call, has every tick of 200 ms take the opacity to the other value.
C37_FadeReplays ==
    /\ [][\A a \in Called(trace', "update") :
             (/\ Kind(a) = "Fade"
              /\ a \notin Called(trace', "stop") /\ ~acts[a].stopped
              /\ \/ ~acts[a].started /\ acts[a].speed = Pool[a].speed
                 \/ CompletedOnce(a) /\ a \in Called(trace', "reset")
              /\ DeltaOf(op') = Pool[a].speed) =>
                 /\ actor'.opacity = Pool[a].endOpacity
                 /\ IsComplete(HeapAfter, a)]_vars
    /\ [][(/\ avail \in FadeReplayScenarios
           /\ op' = [name |-> "update", arg |-> 200]
           /\ calls' = 0
           /\ Pending # <<>>
           /\ actor.opacity \in {0, 1000}) =>
              actor'.opacity = 1000 - actor.opacity]_vars

\* C38: a queue of actions that all end (MoveTo, MoveBy, RotateTo, RotateBy,
\* Delay, Blink, CallMethod, Repeat with a count over such actions), updated
\* tick after tick with the target integrating its velocities, comes to have
\* no pending action, and has none from then on until an action is added or
\* reset is called; the next tick can always be run while the run has ticks left.
C38_FiniteQueueEmpties ==
    /\ [](ticks < TickLimit(avail) => LiveTickEnabled)
    /\ (Pending # <<>>) ~> (Pending = <<>>)
    /\ [][(Pending = <<>> /\ Pending' # <<>>) => op'.name \in {"add", "reset"}]_vars

C38_Witness ==
    /\ Pending = <<>>
    /\ Len(Completed) = MaxQueue
    /\ op.name = "update"
    /\ calls > 0
    /\ avail \in LiveScenarios

\* every action added to the actor's queue has been retired (or none was added)
AllRetired == Pending = <<>> /\ RangeOf(added) = RangeOf(Completed)

\* C39 (stated as claimed): clearActions on a queue with no pending action,
\* every added action being in the completed list, leaves the target's
\* velocity, angular velocity, scale velocity and visibility as they were and
\* calls stop() on no action.
C39_ClearOnIdleQueueTouchesNothing ==
    [][(op'.name = "clearActions" /\ AllRetired) =>
          /\ actor'.vel = actor.vel
          /\ actor'.rx = actor.rx
          /\ actor'.sx = actor.sx /\ actor'.sy = actor.sy
          /\ actor'.visible = actor.visible
          /\ Called(trace', "stop") = {}]_vars

\* how many times x occurs in the list s
Occurrences(x, s) == Cardinality({i \in 1..Len(s) : s[i] = x})

IsPermutation(s, t) ==
    /\ Len(s) = Len(t)
    /\ \A x \in RangeOf(s) \cup RangeOf(t) : Occurrences(x, s) = Occurrences(x, t)

\* the list holds actions only, none of which clears the queue that runs it
NoneClearsQueue(s) == \A i \in 1..Len(s) : s[i] \in DOMAIN acts /\ Kind(s[i]) # "Die"

\* C40: as long as only add and update have been called and no action that
\* clears its queue was added, the pending list followed by the completed list
\* is a permutation of the actions added; and every add, update or reset on a
\* queue without such an action keeps the actions the two lists hold: an add
\* puts in the one action added, an update or a reset leaves a permutation of
\* what the lists held.
C40_QueueConservesActions ==
    /\ []((calls = 0 /\ NoneClearsQueue(added)) => IsPermutation(Pending \o Completed, added))
    /\ [][(op'.name \in {"add", "update", "reset"} /\ NoneClearsQueue(Pending \o Completed)) =>
             IsPermutation(queues'[ActorQueue].actions \o queues'[ActorQueue].completedActions,
                           IF op'.name = "add"
                           THEN Append(Pending \o Completed, op'.arg)
                           ELSE Pending \o Completed)]_vars

C40_Witness ==
    /\ op.name = "reset"
    /\ Len(Pending) >= 2
    /\ Pending # added
    /\ IsPermutation(Pending, added)
    /\ NoneClearsQueue(added)


====
